---- MODULE Spec2Model ----
(***************************************************************************)
(* siliconmeasure: instrument adapters over a VISA transport (SCPI) and    *)
(* over the NI-845x driver (SPI scripting).                                *)
(*                                                                         *)
(* A state is the adapter object (its fields), the transport objects the   *)
(* resource manager handed out, and the record of the last public call:    *)
(* the transport traffic it produced, what it printed, what it returned    *)
(* and which exception, if any, it let through to the caller.              *)
(***************************************************************************)
EXTENDS Integers, Sequences, FiniteSets, TLC

VARIABLES
    adapter,            \* the class of the adapter object
    D,                  \* self.D: resources listed at construction
    rm,                 \* self.rm: "open" or "closed"
    inst,               \* self.inst: <<>> (attribute not set) or <<transport>>
    orphans,            \* transports self.inst stopped referring to while still open
    call,               \* the last public call and its arguments
    traffic,            \* transport I/O attempted during the last call, in order
    printed,            \* lines printed during the last call, in order
    ret,                \* value returned by the last call: <<>> is None, <<v>> is v
    raised,             \* exception the last call propagated to its caller
    input,              \* the arguments of the configuration calls under test
    first_device,       \* General: self.first_device, None or the name buffer's value
    device_handle,      \* General: self.device_handle, "unset", "open" or "closed"
    script_handle,      \* General: self.script_handle, "unset", "open" or "closed"
    script_read_index,  \* General: self.script_read_index
    status,             \* I2C, SPI, SPIStream, SPIScript: self.status
    drvScript,          \* driver: the write data of the script's write/read steps
    drvReadData,        \* driver: the read data of each step, filled by a run
    configuration_handle, \* General: self.configuration_handle, "unset", "open" or "closed"
    find_device_handle, \* General: self.find_device_handle, "unset", "open" or "closed"
    next_device,        \* General: self.next_device, unset or the name buffer's value
    outstanding         \* driver: how many handles of each kind it has handed out
                        \* and not yet closed

scpiVars == <<adapter, D, rm, inst, orphans>>
argVars  == <<input>>
drvVars  == <<configuration_handle, find_device_handle, next_device, outstanding>>
spiVars  == <<first_device, device_handle, script_handle, script_read_index, status,
              drvScript, drvReadData, drvVars>>
vars     == <<adapter, D, rm, inst, orphans, call, traffic, printed, ret, raised, input,
              first_device, device_handle, script_handle, script_read_index, status,
              drvScript, drvReadData, configuration_handle, find_device_handle,
              next_device, outstanding>>

(***************************************************************************)
(* Bounds of the model.                                                    *)
(***************************************************************************)
MaxOrphans == 1
MaxIdx == 8
MaxSteps == 2
MaxIndexArg == 2
MaxHandles == 3

(***************************************************************************)
(* Python values.                                                          *)
(***************************************************************************)
None == <<>>
Some(v) == <<v>>

StartsWith(s, p) == Len(s) >= Len(p) /\ SubSeq(s, 1, Len(p)) = p
EndsWith(s, p) == Len(s) >= Len(p) /\ SubSeq(s, Len(s) - Len(p) + 1, Len(s)) = p

IsSpace(ch) == ch \in {" ", "\n", "\t", "\r"}

RECURSIVE LStrip(_)
LStrip(s) ==
    IF Len(s) > 0 /\ IsSpace(SubSeq(s, 1, 1)) THEN LStrip(SubSeq(s, 2, Len(s))) ELSE s

RECURSIVE RStrip(_)
RStrip(s) ==
    IF Len(s) > 0 /\ IsSpace(SubSeq(s, Len(s), Len(s)))
    THEN RStrip(SubSeq(s, 1, Len(s) - 1)) ELSE s

\* str.strip()
strip(s) == LStrip(RStrip(s))

Digit(d) == SubSeq("0123456789", d + 1, d + 1)

RECURSIVE NatStr(_)
NatStr(n) == IF n < 10 THEN Digit(n) ELSE NatStr(n \div 10) \o Digit(n % 10)

IntStr(n) == IF n < 0 THEN "-" \o NatStr(-n) ELSE NatStr(n)

IsDigit(ch) == \E d \in 0 .. 9 : ch = Digit(d)

\* "".join(filter(str.isdigit, s))
RECURSIVE FilterDigits(_)
FilterDigits(s) ==
    IF s = "" THEN ""
    ELSE (IF IsDigit(SubSeq(s, 1, 1)) THEN SubSeq(s, 1, 1) ELSE "")
         \o FilterDigits(SubSeq(s, 2, Len(s)))

DigitValue(ch) == CHOOSE d \in 0 .. 9 : ch = Digit(d)

\* int(s) for a string of digits
RECURSIVE ParseNat(_)
ParseNat(s) ==
    IF Len(s) = 1 THEN DigitValue(s)
    ELSE 10 * ParseNat(SubSeq(s, 1, Len(s) - 1)) + DigitValue(SubSeq(s, Len(s), Len(s)))

\* the positions of the decimal point in s
Dots(s) == {k \in 1 .. Len(s) : SubSeq(s, k, k) = "."}

\* a decimal numeral: digits with at most one point among them
IsDecimal(s) ==
    /\ FilterDigits(s) # ""
    /\ Cardinality(Dots(s)) <= 1
    /\ \A k \in 1 .. Len(s) : IsDigit(SubSeq(s, k, k)) \/ k \in Dots(s)

\* the value of a decimal numeral: mant * 10^(-frac)
DecimalValue(s) ==
    [type |-> "float", mant |-> ParseNat(FilterDigits(s)),
     frac |-> IF Dots(s) = {} THEN 0 ELSE Len(s) - (CHOOSE k \in Dots(s) : TRUE)]

\* float(s) for a string s: surrounding whitespace is ignored, a sign may lead;
\* <<>> stands for ValueError
float(s) ==
    LET t == strip(s)
        neg == Len(t) > 0 /\ SubSeq(t, 1, 1) = "-"
        signed == Len(t) > 0 /\ SubSeq(t, 1, 1) \in {"-", "+"}
        body == IF signed THEN SubSeq(t, 2, Len(t)) ELSE t
    IN  IF IsDecimal(body)
        THEN <<[DecimalValue(body) EXCEPT !.mant = IF neg THEN -@ ELSE @]>>
        ELSE <<>>

\* "{}".format(x) for an int x or a float x with one decimal, given in tenths
PyFormat(x) ==
    IF x.type = "int" THEN IntStr(x.val)
    ELSE (IF x.val < 0 THEN "-" ELSE "")
         \o NatStr((IF x.val < 0 THEN -x.val ELSE x.val) \div 10) \o "."
         \o Digit((IF x.val < 0 THEN -x.val ELSE x.val) % 10)

PyInt(n) == [type |-> "int", val |-> n]
PyFloat10(t) == [type |-> "float", val |-> t]

\* table[i] of a Python list: <<>> stands for IndexError
PyIndex(table, i) ==
    IF i >= 0 /\ i < Len(table) THEN <<table[i + 1]>>
    ELSE IF i < 0 /\ -i <= Len(table) THEN <<table[Len(table) + i + 1]>>
    ELSE <<>>

(***************************************************************************)
(* The adapters and their option tables.                                   *)
(***************************************************************************)
Adapters == {"AgilentE3631A", "Chroma6314A", "Keithley2200", "KeithleyN6700",
             "Keysight34461A", "TektronixMSO4000B"}

supply_voltage == <<"P6V", "P25V", "N25V">>
output_enable == <<"OFF", "ON">>
display_enable == <<"OFF", "ON">>
beeper_enable == <<"OFF", "ON">>
channel == <<1, 2, 3, 4, 5, 6, 7, 8>>
state == <<"OFF", "ON">>

(***************************************************************************)
(* The VISA transport: pyvisa resources as the adapters use them.          *)
(***************************************************************************)
ResourceNames == {"ASRL1::INSTR", "TCPIP1::h::INSTR", "TCPIP0::h::INSTR",
                  "GPIB0::6::INSTR", "PSU_SOCKET"}

IdnReply == "Agilent,E3631A\n"
Replies == {"1.234\n", "ERR"}

NewTransport(name) ==
    [name |-> name, open |-> TRUE, term |-> "default", timeout |-> "default"]

\* what self.inst.write / self.inst.query raises: "none" when the I/O went through
XferExc(i, ok) ==
    IF i = <<>> THEN "AttributeError"
    ELSE IF ~i[1].open THEN "InvalidSession"
    ELSE IF ok THEN "none" ELSE "VisaIOError"

\* the I/O attempted on the transport self.inst refers to
XferTraffic(i, op, cmd) ==
    IF i = <<>> THEN <<>> ELSE <<[op |-> op, cmd |-> cmd]>>

exceptionhandler(ex) == "Command Error: " \o ex

\* a handler's running result: traffic, printed lines, return value
Ctx0 == [tr |-> <<>>, pr |-> <<>>, ret |-> None]

inst_query(i, c, cmd, ok, reply) ==
    LET e == XferExc(i, ok) IN
    [tr |-> c.tr \o XferTraffic(i, "query", cmd),
     pr |-> IF e = "none" THEN c.pr ELSE Append(c.pr, exceptionhandler(e)),
     ret |-> IF e = "none" THEN Some(reply) ELSE None]

inst_write(i, c, cmd, ok) ==
    LET e == XferExc(i, ok) IN
    [tr |-> c.tr \o XferTraffic(i, "write", cmd),
     pr |-> IF e = "none" THEN c.pr ELSE Append(c.pr, exceptionhandler(e)),
     ret |-> None]

\* Keysight34461A.query
query(i, c, cmd, ok, reply) == inst_query(i, c, cmd, ok, reply)

\* a write that does not look at the last character of the command
write_unrouted(i, c, cmd, ok, reply) == inst_write(i, c, cmd, ok)

\* the write of the adapters that route on '?'
write_routed(i, c, cmd, ok, reply) ==
    IF EndsWith(cmd, "?") THEN inst_query(i, c, cmd, ok, reply)
    ELSE inst_write(i, c, cmd, ok)

\* Keysight34461A.write
write_plain(i, c, cmd, ok) == inst_write(i, c, cmd, ok)

write(a, i, c, cmd, ok, reply) ==
    IF a = "Keysight34461A" THEN write_plain(i, c, cmd, ok)
    ELSE write_routed(i, c, cmd, ok, reply)

\* import_error(): the line Chroma6314A.open prints from its bare except
import_error_line == "Invalid Adapter provided for Instrument"

\* what the except clause of open prints for exception ex
open_except(a, ex) ==
    IF a = "Chroma6314A" THEN import_error_line ELSE exceptionhandler(ex)

default_setup(a, i, c, ok) == write(a, i, c, "*ESE 60;*SRE 48;*CLS", ok, "")

reset(a, i, c, ok1, ok2) == default_setup(a, i, write(a, i, c, "*RST", ok1, ""), ok2)

inst_Q(a, i, c, ok, reply) ==
    IF a = "Keysight34461A" THEN query(i, c, "*IDN?", ok, reply)
    ELSE write(a, i, c, "*IDN?", ok, reply)

\* a termination policy that leaves serial resources at the default
NeedsNewline_NoSerial(name) ==
    \/ StartsWith(name, "TCPIP")
    \/ EndsWith(name, "SOCKET")

\* the resource names for which open sets read_termination = "\n"
NeedsNewline(name) ==
    \/ StartsWith(name, "ASRL")
    \/ StartsWith(name, "TCPIP")
    \/ StartsWith(name, "TCPIP0")
    \/ EndsWith(name, "SOCKET")

\* the identification step of open, after the optional reset
open_idn(a, i, c, ok, reply) ==
    IF a = "TektronixMSO4000B"
    THEN [c EXCEPT !.pr = Append(c.pr, i[1].name \o " resource has been connected")]
    ELSE LET q == inst_Q(a, i, c, ok, reply) IN
         IF a = "Keysight34461A"
         THEN [q EXCEPT !.pr = Append(q.pr,
                  (IF q.ret = None THEN "None" ELSE q.ret[1])
                      \o " resource has been connected"), !.ret = None]
         ELSE IF q.ret = None
              THEN [q EXCEPT !.pr = Append(q.pr, open_except(a, "AttributeError"))]
              ELSE [q EXCEPT !.pr = Append(q.pr,
                       strip(q.ret[1]) \o " resource has been connected"),
                             !.ret = None]

\* open(inst_resource, reset, idn); o.open says whether open_resource succeeds,
\* o.ok1, o.ok2, o.ok3 whether the I/O of *RST, of the default setup and of
\* *IDN? goes through, o.gc whether the runtime finalises, and so closes, the
\* transport self.inst stops referring to: open itself never closes it
open(a, st, res, rst, idn, o) ==
    IF st.rm = "closed" \/ ~o.open
    THEN [inst |-> st.inst, orphans |-> st.orphans, tr |-> <<>>,
          pr |-> <<open_except(a, IF st.rm = "closed" THEN "InvalidSession"
                                  ELSE "VisaIOError")>>]
    ELSE LET t0 == NewTransport(res)
             t1 == IF a = "TektronixMSO4000B" THEN [t0 EXCEPT !.timeout = "10000"]
                   ELSE t0
             t2 == IF NeedsNewline(t1.name) THEN [t1 EXCEPT !.term = "\n"] ELSE t1
             i == <<t2>>
             left == IF st.inst # <<>> /\ st.inst[1].open /\ ~o.gc THEN st.orphans + 1
                     ELSE st.orphans
             c1 == IF rst THEN reset(a, i, Ctx0, o.ok1, o.ok2) ELSE Ctx0
             c2 == IF idn THEN open_idn(a, i, c1, o.ok3, IdnReply) ELSE c1
         IN  IF Len(st.D) = 0
             THEN [inst |-> i, orphans |-> left, tr |-> <<>>,
                   pr |-> <<"No devices connected.">>]
             ELSE [inst |-> i, orphans |-> left, tr |-> c2.tr, pr |-> c2.pr]

\* self.inst.close(); self.rm.close(); print(...) at the end of close
close_release(st, c, who) ==
    [inst |-> <<[st.inst[1] EXCEPT !.open = FALSE]>>, rm |-> "closed",
     orphans |-> st.orphans,
     tr |-> c.tr, pr |-> Append(c.pr, who \o " resource has been disconnected")]

close_except(st, c, ex) ==
    [inst |-> st.inst, rm |-> st.rm, orphans |-> st.orphans,
     tr |-> c.tr, pr |-> Append(c.pr, exceptionhandler(ex))]

\* close(); ok says whether the I/O of the *IDN? it issues goes through
close(a, st, ok) ==
    IF a = "TektronixMSO4000B"
    THEN IF st.inst = <<>> THEN close_except(st, Ctx0, "AttributeError")
         ELSE close_release(st, Ctx0, st.inst[1].name)
    ELSE LET q == inst_Q(a, st.inst, Ctx0, ok, IdnReply) IN
         IF a = "Keysight34461A"
         THEN IF st.inst = <<>> THEN close_except(st, q, "AttributeError")
              ELSE close_release(st, q, IF q.ret = None THEN "None" ELSE q.ret[1])
         ELSE IF q.ret = None THEN close_except(st, q, "AttributeError")
              ELSE close_release(st, q, strip(q.ret[1]))

\* a configuration handler's result: exc is what it lets through to the caller
Raise(ex) == [tr |-> <<>>, pr |-> <<>>, ret |-> None, exc |-> ex]
Returned(c) == [tr |-> c.tr, pr |-> c.pr, ret |-> None, exc |-> "none"]

\* a template whose beeper clause is chosen the wrong way round
configure_cmd_swapped(sv, ov, oc, dp, bp) ==
    ":INSTrument " \o sv \o ";:VOLTage " \o PyFormat(ov) \o ";:CURRent " \o PyFormat(oc)
        \o ";:DISPlay " \o dp \o (IF bp = "OFF" THEN ";:SYSTem:BEEPer;" ELSE ";")

\* the command string AgilentE3631A.configure formats
configure_cmd(sv, ov, oc, dp, bp) ==
    ":INSTrument " \o sv \o ";:VOLTage " \o PyFormat(ov) \o ";:CURRent " \o PyFormat(oc)
        \o ";:DISPlay " \o dp \o (IF bp = "ON" THEN ";:SYSTem:BEEPer;" ELSE ";")

\* AgilentE3631A.configure(supply_voltage, output_voltage, output_current, display, beeper)
configure(i, sv, ov, oc, dp, bp, ok) ==
    LET s == PyIndex(supply_voltage, sv)
        d == PyIndex(display_enable, dp)
        b == PyIndex(beeper_enable, bp)
    IN  IF s = <<>> \/ d = <<>> \/ b = <<>> THEN Raise("IndexError")
        ELSE Returned(write("AgilentE3631A", i, Ctx0,
                            configure_cmd(s[1], ov, oc, d[1], b[1]), ok, ""))

\* AgilentE3631A.output(output)
output(i, out, ok) ==
    LET e == PyIndex(output_enable, out)
    IN  IF e = <<>> THEN Raise("IndexError")
        ELSE Returned(write("AgilentE3631A", i, Ctx0, ":OUTPut " \o e[1] \o ";", ok, ""))

\* Chroma6314A.channel_subsystem(channel, active, synchronized)
channel_subsystem(i, ch, act, syn, ok) ==
    LET c == PyIndex(channel, ch)
        a == PyIndex(state, act)
        y == PyIndex(state, syn)
    IN  IF c = <<>> \/ a = <<>> \/ y = <<>> THEN Raise("IndexError")
        ELSE Returned(write("Chroma6314A", i, Ctx0,
                            ":CHANnel " \o IntStr(c[1]) \o ";:CHANnel:ACTive " \o a[1]
                                \o ";:CHANnel:SYNCon " \o y[1] \o ";", ok, ""))

Session == [inst |-> inst, rm |-> rm, orphans |-> orphans, D |-> D]

(***************************************************************************)
(* Initial state: a constructed adapter, no session, a fresh SPI script    *)
(* object.                                                                 *)
(***************************************************************************)
\* the arguments drawn for the configuration calls: three option indices and
\* two numeric values
IdxFirst == -(MaxIdx + 1) .. MaxIdx
IdxOnOff == -(Len(state) + 1) .. Len(state)
Numbers == {PyInt(1), PyFloat10(5), PyInt(25)}
Inputs == [i1 : IdxFirst, i2 : IdxOnOff, i3 : IdxOnOff, v : Numbers, c : Numbers]
NoInput == [i1 |-> 0, i2 |-> 0, i3 |-> 0, v |-> PyInt(0), c |-> PyInt(0)]

\* the kinds of handle the driver hands out
HandleKinds == {"device", "configuration", "script", "find"}
NoHandles == [k \in HandleKinds |-> 0]

InitObjects ==
    /\ D \in {<<>>, <<"GPIB0::6::INSTR">>}
    /\ rm = "open"
    /\ inst = <<>>
    /\ orphans = 0
    /\ call = [op |-> "init"]
    /\ traffic = <<>>
    /\ printed = <<>>
    /\ ret = None
    /\ raised = "none"
    /\ first_device = None
    /\ device_handle = "unset"
    /\ script_handle = "unset"
    /\ script_read_index = 0
    /\ status = 0
    /\ drvScript = <<>>
    /\ drvReadData = <<>>
    /\ configuration_handle = "unset"
    /\ find_device_handle = "unset"
    /\ next_device = None
    /\ outstanding = NoHandles

Init == InitObjects /\ adapter \in Adapters /\ input = NoInput

InitCfg ==
    /\ InitObjects
    /\ adapter \in {"AgilentE3631A", "Chroma6314A"}
    /\ D # <<>>
    /\ input \in Inputs

WriteCmds == {"*RST", ":OUTPut ON;", ":MEASure:VOLTage?", "*IDN?"}

Write(cmd, ok, reply) ==
    LET r == write(adapter, inst, Ctx0, cmd, ok, reply) IN
    /\ call' = [op |-> "write", cmd |-> cmd, ok |-> ok, reply |-> reply]
    /\ traffic' = r.tr
    /\ printed' = r.pr
    /\ ret' = r.ret
    /\ raised' = "none"
    /\ UNCHANGED <<scpiVars, spiVars, argVars>>

Open(res, rst, idn, o) ==
    LET r == open(adapter, Session, res, rst, idn, o) IN
    /\ r.orphans <= MaxOrphans
    /\ call' = [op |-> "open", res |-> res, reset |-> rst, idn |-> idn,
                opened |-> (rm = "open" /\ o.open)]
    /\ inst' = r.inst
    /\ orphans' = r.orphans
    /\ traffic' = r.tr
    /\ printed' = r.pr
    /\ ret' = None
    /\ raised' = "none"
    /\ UNCHANGED <<adapter, D, rm, spiVars, argVars>>

Close(ok) ==
    LET r == close(adapter, Session, ok) IN
    /\ call' = [op |-> "close", ok |-> ok]
    /\ inst' = r.inst
    /\ rm' = r.rm
    /\ orphans' = r.orphans
    /\ traffic' = r.tr
    /\ printed' = r.pr
    /\ ret' = None
    /\ raised' = "none"
    /\ UNCHANGED <<adapter, D, spiVars, argVars>>

\* the outcomes of the I/O an open(reset, idn) can attempt
Oracles(rst, idn) ==
    {[open |-> FALSE, ok1 |-> TRUE, ok2 |-> TRUE, ok3 |-> TRUE, gc |-> FALSE]}
    \cup [open : {TRUE},
          ok1 : IF rst THEN BOOLEAN ELSE {TRUE},
          ok2 : IF rst THEN BOOLEAN ELSE {TRUE},
          ok3 : IF idn THEN BOOLEAN ELSE {TRUE},
          gc : IF inst # <<>> /\ inst[1].open THEN BOOLEAN ELSE {FALSE}]

Next ==
    \/ \E res \in ResourceNames, rst \in BOOLEAN, idn \in BOOLEAN :
          \E o \in Oracles(rst, idn) : Open(res, rst, idn, o)
    \/ \E ok \in BOOLEAN : Close(ok)
    \/ \E cmd \in WriteCmds, ok \in BOOLEAN, reply \in Replies : Write(cmd, ok, reply)

Spec == Init /\ [][Next]_vars

\* a configuration handler's result becomes the record of the last call
Called(op, r) ==
    /\ call' = [op |-> op]
    /\ traffic' = r.tr
    /\ printed' = r.pr
    /\ ret' = r.ret
    /\ raised' = r.exc
    /\ UNCHANGED <<scpiVars, spiVars, argVars>>

Configure(ok) ==
    /\ adapter = "AgilentE3631A"
    /\ Called("configure", configure(inst, input.i1, input.v, input.c, input.i2, input.i3, ok))

Output(ok) ==
    /\ adapter = "AgilentE3631A"
    /\ Called("output", output(inst, input.i2, ok))

ChannelSubsystem(ok) ==
    /\ adapter = "Chroma6314A"
    /\ Called("channel_subsystem", channel_subsystem(inst, input.i1, input.i2, input.i3, ok))

NextCfg ==
    \/ \E o \in Oracles(FALSE, FALSE) : Open("GPIB0::6::INSTR", FALSE, FALSE, o)
    \/ Close(TRUE)
    \/ \E ok \in BOOLEAN : Configure(ok)
    \/ \E ok \in BOOLEAN : Output(ok)
    \/ \E ok \in BOOLEAN : ChannelSubsystem(ok)

SpecCfg == InitCfg /\ [][NextCfg]_vars

(***************************************************************************)
(* Properties of the configuration calls.                                  *)
(***************************************************************************)
OutOfRange(table, i) == i < 0 \/ i >= Len(table)

\* the option indices of the last configuration call, none of them in range
BadIndex ==
    \/ /\ call.op = "configure"
       /\ \/ OutOfRange(supply_voltage, input.i1)
          \/ OutOfRange(display_enable, input.i2)
          \/ OutOfRange(beeper_enable, input.i3)
    \/ call.op = "output" /\ OutOfRange(output_enable, input.i2)
    \/ /\ call.op = "channel_subsystem"
       /\ \/ OutOfRange(channel, input.i1)
          \/ OutOfRange(state, input.i2)
          \/ OutOfRange(state, input.i3)

\* C1: a configuration call given an option index outside [0, len(table)),
\* negative indices included, fails with InvalidOption and performs no
\* transport write.
C1_InvalidOptionNoWrite ==
    BadIndex => raised = "InvalidOption" /\ traffic = <<>>

ScenarioInput ==
    [i1 |-> 0, i2 |-> 1, i3 |-> 0, v |-> PyInt(1), c |-> PyFloat10(5)]

ScenarioCmd == ":INSTrument P6V;:VOLTage 1;:CURRent 0.5;:DISPlay ON;"

\* C2: with valid option indices, configure on an opened session performs
\* exactly one transport write, of ':INSTrument <supply>;:VOLTage <v>;:CURRent
\* <c>;:DISPlay <display>' followed by ';' when beeper is OFF and by
\* ';:SYSTem:BEEPer;' when beeper is ON; supply P6V, voltage 1, current 0.5,
\* display ON, beeper OFF gives ':INSTrument P6V;:VOLTage 1;:CURRent 0.5;:DISPlay ON;'.
C2_ConfigureTemplate ==
    (call.op = "configure" /\ ~BadIndex /\ inst # <<>>) =>
        /\ raised = "none"
        /\ Len(traffic) = 1
        /\ traffic[1].op = "write"
        /\ traffic[1].cmd =
              ":INSTrument " \o supply_voltage[input.i1 + 1]
                  \o ";:VOLTage " \o PyFormat(input.v)
                  \o ";:CURRent " \o PyFormat(input.c)
                  \o ";:DISPlay " \o display_enable[input.i2 + 1]
                  \o (IF input.i3 = 1 THEN ";:SYSTem:BEEPer;" ELSE ";")
        /\ (input = ScenarioInput => traffic[1].cmd = ScenarioCmd)

C2_Witness ==
    /\ call.op = "configure"
    /\ input = ScenarioInput
    /\ inst # <<>> /\ inst[1].open
    /\ traffic = <<[op |-> "write", cmd |-> ScenarioCmd]>>

(***************************************************************************)
(* Properties of the session: open, write, close.                          *)
(***************************************************************************)
Opened == call.op = "open" /\ call.opened

\* C3 as stated: open selects newline termination exactly when the resource
\* name starts with "TCPIP0" or ends with "SOCKET".
C3_OnlyTcpip0OrSocket ==
    Opened => (inst[1].term = "\n"
                 <=> (StartsWith(call.res, "TCPIP0") \/ EndsWith(call.res, "SOCKET")))

\* C3: open selects newline read termination exactly when the resource name
\* starts with "ASRL" or with "TCPIP" or ends with "SOCKET"; every other
\* resource keeps the transport's default termination.
C3_NewlineTermination ==
    Opened =>
        /\ inst[1].name = call.res
        /\ inst[1].term = IF \/ StartsWith(call.res, "ASRL")
                             \/ StartsWith(call.res, "TCPIP")
                             \/ EndsWith(call.res, "SOCKET")
                          THEN "\n" ELSE "default"

C3_Witness ==
    Opened /\ call.res = "ASRL1::INSTR" /\ inst[1].term = "\n"

\* C4 as stated: in every adapter, write(cmd) on an opened session performs
\* exactly one transport operation, a query returning the reply when cmd ends
\* with '?', a plain write returning nothing otherwise.
C4_EveryWriteRoutes ==
    (call.op = "write" /\ inst # <<>>) =>
        /\ Len(traffic) = 1
        /\ traffic[1].cmd = call.cmd
        /\ IF EndsWith(call.cmd, "?")
           THEN /\ traffic[1].op = "query"
                /\ (call.ok /\ inst[1].open => ret = Some(call.reply))
           ELSE traffic[1].op = "write" /\ ret = None

\* C4: in every adapter but Keysight34461A, write(cmd) on an opened session
\* performs exactly one transport operation, a query returning the reply when
\* cmd ends with '?', a plain write returning nothing otherwise;
\* Keysight34461A.write always performs one plain write and returns nothing.
C4_WriteRouting ==
    (call.op = "write" /\ inst # <<>>) =>
        /\ Len(traffic) = 1
        /\ traffic[1].cmd = call.cmd
        /\ raised = "none"
        /\ IF adapter # "Keysight34461A" /\ EndsWith(call.cmd, "?")
           THEN /\ traffic[1].op = "query"
                /\ ret = IF call.ok /\ inst[1].open THEN Some(call.reply) ELSE None
           ELSE traffic[1].op = "write" /\ ret = None

C4_Witness ==
    /\ call.op = "write" /\ call.cmd = ":MEASure:VOLTage?"
    /\ adapter = "AgilentE3631A"
    /\ inst # <<>> /\ inst[1].open
    /\ traffic = <<[op |-> "query", cmd |-> ":MEASure:VOLTage?"]>>
    /\ ret = Some("1.234\n")

\* C5: after close() on a session that was opened, the transport and the
\* resource manager are released, whatever the outcome of the identification
\* query close issues first.
C5_CloseReleases ==
    (call.op = "close" /\ inst # <<>> /\ D # <<>>) => (~inst[1].open /\ rm = "closed")

SessionOpen == inst # <<>> /\ inst[1].open /\ rm = "open"
SessionClosed == inst # <<>> /\ ~inst[1].open /\ rm = "closed"

\* C6: after a successful open, write(cmd) followed immediately by close()
\* raises no error and leaves the session closed, and a further close() raises
\* no error and changes nothing.
C6_WriteCloseClose ==
    [][/\ (SessionOpen /\ D # <<>> /\ call.op = "write" /\ call'.op = "close")
            => (raised' = "none" /\ SessionClosed')
       /\ (SessionClosed /\ call'.op = "close")
            => (raised' = "none" /\ UNCHANGED scpiVars)]_vars

Reported(kind) ==
    \/ raised = kind
    \/ \E k \in 1 .. Len(printed) : printed[k] = exceptionhandler(kind)

\* C7: close() on an adapter that was never opened reports NotOpen, lets no
\* unrelated fault through to the caller and performs no transport operation.
C7_CloseUnopenedReportsNotOpen ==
    (call.op = "close" /\ inst = <<>>) =>
        /\ Reported("NotOpen")
        /\ raised \in {"none", "NotOpen"}
        /\ traffic = <<>>

\* C8: when the resource cannot be opened, or when the enumeration at
\* construction was empty, open reports the failure, leaves no transport open
\* and sends neither reset nor identification commands.
C8_FailedOpenLeavesNothing ==
    call.op = "open" =>
        /\ ~call.opened => (printed # <<>> /\ traffic = <<>>)
        /\ (call.opened /\ D = <<>>) =>
              /\ printed = <<"No devices connected.">>
              /\ traffic = <<>>
              /\ ~inst[1].open

\* C9: once the resource is opened, the traffic of open(resource, reset, idn)
\* is '*RST' then '*ESE 60;*SRE 48;*CLS' iff reset, followed by exactly one
\* '*IDN?' query iff idn, and nothing else.
C9_OpenTraffic ==
    (Opened /\ D # <<>>) =>
        traffic = (IF call.reset
                   THEN <<[op |-> "write", cmd |-> "*RST"],
                          [op |-> "write", cmd |-> "*ESE 60;*SRE 48;*CLS"]>>
                   ELSE <<>>)
                  \o (IF call.idn THEN <<[op |-> "query", cmd |-> "*IDN?"]>> ELSE <<>>)

(***************************************************************************)
(* Read and measure operations of the SCPI adapters.                       *)
(***************************************************************************)
\* a handler that returns what its write returned
ReturnedValue(c) == [tr |-> c.tr, pr |-> c.pr, ret |-> c.ret, exc |-> "none"]

\* read_outputvoltage() of AgilentE3631A, Keithley2200 and KeithleyN6700:
\* float() of what write returned, outside any try
read_outputvoltage(a, i, ok, reply) ==
    LET q == write(a, i, Ctx0, ":MEASure:VOLTage?", ok, reply) IN
    IF q.ret = None
    THEN [tr |-> q.tr, pr |-> q.pr, ret |-> None, exc |-> "TypeError"]
    ELSE IF float(q.ret[1]) = <<>>
         THEN [tr |-> q.tr, pr |-> q.pr, ret |-> None, exc |-> "ValueError"]
         ELSE [tr |-> q.tr, pr |-> q.pr, ret |-> float(q.ret[1]), exc |-> "none"]

\* float(reply) of a read method, outside any try
measured(q) ==
    IF q.ret = None
    THEN [tr |-> q.tr, pr |-> q.pr, ret |-> None, exc |-> "TypeError"]
    ELSE IF float(q.ret[1]) = <<>>
         THEN [tr |-> q.tr, pr |-> q.pr, ret |-> None, exc |-> "ValueError"]
         ELSE [tr |-> q.tr, pr |-> q.pr, ret |-> float(q.ret[1]), exc |-> "none"]

\* read_outputcurrent() of AgilentE3631A, Keithley2200 and KeithleyN6700
read_outputcurrent(a, i, ok, reply) ==
    measured(write(a, i, Ctx0, ":MEASure:CURRent?", ok, reply))

\* read_outputpower() of KeithleyN6700
read_outputpower(a, i, ok, reply) ==
    measured(write(a, i, Ctx0, ":MEASure:CURRent?", ok, reply))

\* Keysight34461A.setting_Q, the only setting_Q table an adapter defines
setting_Q == <<"*CAL?, *ESR?", "*STB?", "*TST?">>

\* the four common queries the docstring of common_Q lists, by index
CommonQueries == <<"*CAL?", "*ESR?", "*STB?", "*TST?">>

\* a handler whose except clause caught ex before any transport operation
Caught(ex) ==
    [tr |-> <<>>, pr |-> <<exceptionhandler(ex)>>, ret |-> None, exc |-> "none"]

\* common_Q(setting_q): Keysight34461A indexes its table and queries;
\* AgilentE3631A, Keithley2200 and KeithleyN6700 read self.setting_Q, which no
\* constructor sets, inside a try; TektronixMSO4000B does so outside any try;
\* Chroma6314A calls self.query, a method the class does not have
common_Q(a, i, setting_q, ok, reply) ==
    IF a = "Keysight34461A"
    THEN LET s == PyIndex(setting_Q, setting_q) IN
         IF s = <<>> THEN Caught("IndexError")
         ELSE ReturnedValue(query(i, Ctx0, s[1], ok, reply))
    ELSE IF a = "TektronixMSO4000B" THEN Raise("AttributeError")
    ELSE Caught("AttributeError")

\* the query operations of Chroma6314A
measure_V(i, ok, reply) ==
    ReturnedValue(write("Chroma6314A", i, Ctx0, "MEASure:VOLTage?", ok, reply))
measure_I(i, ok, reply) ==
    ReturnedValue(write("Chroma6314A", i, Ctx0, "MEASure:CURRent?", ok, reply))
measure_all_V(i, ok, reply) ==
    Returned(write("Chroma6314A", i, Ctx0, "MEASure:ALLVoltage?", ok, reply))
measure_all_I(i, ok, reply) ==
    Returned(write("Chroma6314A", i, Ctx0, "MEASure:ALLCurrent?", ok, reply))
get_load_status(i, ok, reply) ==
    Returned(write("Chroma6314A", i, Ctx0, "LOAD?", ok, reply))
fetch_status(i, ok, reply) ==
    Returned(write("Chroma6314A", i, Ctx0, "FETCh:STATus?", ok, reply))
select_ch_query(i, ok, reply) ==
    Returned(write("Chroma6314A", i, Ctx0, ":CHANnel?", ok, reply))
query_mode(i, ok, reply) ==
    Returned(write("Chroma6314A", i, Ctx0, ":MODE?", ok, reply))
query_meas_input(i, ok, reply) ==
    Returned(write("Chroma6314A", i, Ctx0, "MEASure:INP?", ok, reply))
query_meas_scan(i, ok, reply) ==
    Returned(write("Chroma6314A", i, Ctx0, "MEASure:SCAN?", ok, reply))

ChromaQueries == {"measure_V", "measure_I", "measure_all_V", "measure_all_I",
                  "get_load_status", "fetch_status", "select_ch_query", "query_mode",
                  "query_meas_input", "query_meas_scan"}

chroma_query(op, i, ok, reply) ==
    CASE op = "measure_V" -> measure_V(i, ok, reply)
      [] op = "measure_I" -> measure_I(i, ok, reply)
      [] op = "measure_all_V" -> measure_all_V(i, ok, reply)
      [] op = "measure_all_I" -> measure_all_I(i, ok, reply)
      [] op = "get_load_status" -> get_load_status(i, ok, reply)
      [] op = "fetch_status" -> fetch_status(i, ok, reply)
      [] op = "select_ch_query" -> select_ch_query(i, ok, reply)
      [] op = "query_mode" -> query_mode(i, ok, reply)
      [] op = "query_meas_input" -> query_meas_input(i, ok, reply)
      [] op = "query_meas_scan" -> query_meas_scan(i, ok, reply)

(***************************************************************************)
(* Chroma6314A.current_subsystem.                                          *)
(***************************************************************************)
PyBool(b) == [type |-> "bool", val |-> IF b THEN 1 ELSE 0]
PyStr(s) == [type |-> "str", val |-> s]

\* int(x) for an int, a bool or a string of digits
int(x) == IF x.type = "str" THEN ParseNat(x.val) ELSE x.val

\* x == 1 in Python: True equals 1, a string never does
EqualsOne(x) == x.type \in {"int", "bool"} /\ x.val = 1

\* "{}".format(x), strings included
Format(x) == IF x.type = "str" THEN x.val ELSE PyFormat(x)

curr_subsystem == <<"STATic", "DYNamic">>

\* the L1/L2/RISE/FALL command of current_subsystem
level_cmd(sub, l1, l2, rise, fall) ==
    ":CURRent:" \o sub \o ":L1 " \o Format(l1) \o ";:CURRent:" \o sub \o ":L2 " \o Format(l2)
        \o ";:CURRent:" \o sub \o ":RISE " \o Format(rise)
        \o ";:CURRent:" \o sub \o ":FALL " \o Format(fall) \o ";"

\* the T1/T2 command of current_subsystem
duration_cmd(sub, t1, t2) ==
    ":CURRent:" \o sub \o ":T1 " \o Format(t1) \o ";:CURRent:" \o sub \o ":T2 "
        \o Format(t2) \o ";"

\* Chroma6314A.current_subsystem(curr_subsystem, max_iload1, min_iload2,
\* rise_slewrate, fall_slewrate, dynamic_duration1, dynamic_duration2); ok1
\* and ok2 say whether the I/O of the first and of the second write goes through
current_subsystem(i, tag, l1, l2, rise, fall, t1, t2, ok1, ok2) ==
    LET s == PyIndex(curr_subsystem, int(tag)) IN
    IF s = <<>> THEN Raise("IndexError")
    ELSE LET w1 == write("Chroma6314A", i, Ctx0, level_cmd(s[1], l1, l2, rise, fall),
                         ok1, "")
         IN  IF EqualsOne(tag)
             THEN Returned(write("Chroma6314A", i, w1, duration_cmd(s[1], t1, t2), ok2, ""))
             ELSE Returned(w1)

\* the values of curr_subsystem the calls are made with
SubsystemTags == {PyInt(0), PyInt(1), PyInt(2), PyBool(FALSE), PyBool(TRUE),
                  PyStr("0"), PyStr("1")}

(***************************************************************************)
(* TektronixMSO4000B: stored setups and the screen hardcopy.               *)
(***************************************************************************)
\* TektronixMSO4000B.save_setup(location), recall_setup(recall) and
\* delete_setup(delete): one write, then the success line, whatever the write did
save_setup(i, location, ok) ==
    LET w == write("TektronixMSO4000B", i, Ctx0, "SAVe:SETUp " \o location, ok, "") IN
    Returned([w EXCEPT !.pr = Append(w.pr, "Front-panel setup has been saved successfully.")])

recall_setup(i, recall, ok) ==
    LET w == write("TektronixMSO4000B", i, Ctx0, "RECAll:SETUp " \o recall, ok, "") IN
    Returned([w EXCEPT !.pr = Append(w.pr,
                                     "Front-panel setup has been recalled successfully.")])

delete_setup(i, delete, ok) ==
    LET w == write("TektronixMSO4000B", i, Ctx0, "DELEte:SETUp " \o delete, ok, "") IN
    Returned([w EXCEPT !.pr = Append(w.pr,
                                     "Front-panel setup has been deleted successfully.")])

\* self.inst.read_raw(size), called by save_hardcopy outside write
inst_read_raw(i, c, ok) ==
    [tr |-> c.tr \o XferTraffic(i, "read_raw", ""), pr |-> c.pr, ret |-> None,
     exc |-> XferExc(i, ok)]

\* open(name, 'wb'); file.write(read_data); file.close()
file_write(c, name, ok) ==
    [tr |-> Append(c.tr, [op |-> "file_write", cmd |-> name]), pr |-> c.pr,
     ret |-> None, exc |-> IF ok THEN "none" ELSE "OSError"]

\* whether each step of save_hardcopy goes through
HardcopyOracles ==
    [save : BOOLEAN, opc : BOOLEAN, readfile : BOOLEAN, raw : BOOLEAN,
     local : BOOLEAN, del : BOOLEAN]

\* TektronixMSO4000B.save_hardcopy(path, filename): the bare except ends the
\* method silently at the first step that raises
save_hardcopy(i, path, filename, o) ==
    LET w1 == write("TektronixMSO4000B", i, Ctx0, "SAVe:IMAGe 'C:/Temp.png'", o.save, "")
        w2 == write("TektronixMSO4000B", i, w1, "*OPC?", o.opc, "1\n")
        w3 == write("TektronixMSO4000B", i, w2, "FILESystem:READFile 'C:/Temp.png'",
                    o.readfile, "")
        r4 == inst_read_raw(i, w3, o.raw)
        f5 == file_write(r4, path \o filename \o ".png", o.local)
        w6 == write("TektronixMSO4000B", i, f5, "FILESyetem:DELEte 'C:/Temp.png'",
                    o.del, "")
    IN  IF r4.exc # "none" THEN Returned(r4)
        ELSE IF f5.exc # "none" THEN Returned(f5)
        ELSE Returned([w6 EXCEPT !.pr = Append(w6.pr, "Hardcopy has saved!!!")])

\* the option tables of TektronixMSO4000B
scope_channel == <<"CH1", "CH2", "CH3", "CH4", "CH5", "CH6", "CH7", "CH8">>
time_measure_type == <<"FREQuency", "PERIod", "PWIdth", "NWIdth", "FALL", "RISe",
                       "DELay", "PDUty", "NDUty">>
measure_visible == <<"OFF", "MEAS">>
measure_active == <<1, 2, 3, 4, 5, 6, 7, 8>>
acquisition == <<"OFF", "ON", "RUN", "STOP">>
display == <<"OFF", "ON">>

\* the command string TektronixMSO4000B.time_measurement formats
time_measurement_cmd(acq, act, typ, vis, disp, ch) ==
    ":ACQuire:STATE " \o acq \o ";:MEASUrement:MEAS" \o IntStr(act) \o ":TYPe " \o typ
        \o ";:MEASUREMENT:INDICATORS:STATE " \o vis \o IntStr(act)
        \o ";:MEASUrement:MEAS" \o IntStr(act) \o ":STATE " \o disp
        \o ";:MEASUrement:MEAS" \o IntStr(act) \o ":SOUrce1 " \o ch \o ";"

\* TektronixMSO4000B.time_measurement(acquisition, channel, time_measure_type,
\* measure_visible, measure_active, display)
time_measurement(i, acq, ch, typ, vis, act, disp, ok) ==
    LET a == PyIndex(acquisition, acq)
        c == PyIndex(scope_channel, ch)
        t == PyIndex(time_measure_type, typ)
        v == PyIndex(measure_visible, vis)
        m == PyIndex(measure_active, act)
        d == PyIndex(display, disp)
    IN  IF <<>> \in {a, c, t, v, m, d} THEN Raise("IndexError")
        ELSE Returned(write("TektronixMSO4000B", i, Ctx0,
                            time_measurement_cmd(a[1], m[1], t[1], v[1], d[1], c[1]),
                            ok, ""))

(***************************************************************************)
(* write(cmd) with an argument of any type.                                *)
(***************************************************************************)
invalid_command_line == "Invalid SCPI command: Please provid valid SCPI command input"

\* a write that hands an argument of any type to the transport
write_any_unchecked(a, i, c, x, ok, reply) ==
    IF x.type = "str" THEN write(a, i, c, x.val, ok, reply)
    ELSE inst_write(i, c, PyFormat(x), ok)

\* write(cmd): the adapters that route on '?' test isinstance(cmd, str) first
\* and only print for any other type; Keysight34461A.write hands cmd to
\* self.inst.write, which raises for a non-string inside the try
write_any(a, i, c, x, ok, reply) ==
    IF x.type = "str" THEN write(a, i, c, x.val, ok, reply)
    ELSE IF a = "Keysight34461A"
         THEN [tr |-> c.tr, pr |-> Append(c.pr, exceptionhandler("AttributeError")),
               ret |-> None]
         ELSE [tr |-> c.tr, pr |-> Append(c.pr, invalid_command_line), ret |-> None]

\* the arguments write is called with
WriteArgs == {PyStr("*RST"), PyStr("*IDN?"), PyInt(5), PyFloat10(25)}

\* a read handler's result becomes the record of the last call
CalledWith(c, r) ==
    /\ call' = c
    /\ traffic' = r.tr
    /\ printed' = r.pr
    /\ ret' = r.ret
    /\ raised' = r.exc
    /\ UNCHANGED <<scpiVars, spiVars, argVars>>

ReadOutputVoltage(ok, reply) ==
    /\ adapter \in {"AgilentE3631A", "Keithley2200", "KeithleyN6700"}
    /\ CalledWith([op |-> "read_outputvoltage", ok |-> ok, reply |-> reply],
                  read_outputvoltage(adapter, inst, ok, reply))

ReadOutputCurrent(ok, reply) ==
    /\ adapter \in {"AgilentE3631A", "Keithley2200", "KeithleyN6700"}
    /\ CalledWith([op |-> "read_outputcurrent", ok |-> ok, reply |-> reply],
                  read_outputcurrent(adapter, inst, ok, reply))

ReadOutputPower(ok, reply) ==
    /\ adapter = "KeithleyN6700"
    /\ CalledWith([op |-> "read_outputpower", ok |-> ok, reply |-> reply],
                  read_outputpower(adapter, inst, ok, reply))

SettingArgs == 0 .. 3

CommonQ(setting_q, ok, reply) ==
    /\ adapter \in Adapters
    /\ CalledWith([op |-> "common_Q", setting_q |-> setting_q, ok |-> ok,
                   reply |-> reply],
                  common_Q(adapter, inst, setting_q, ok, reply))

CurrentSubsystem(tag, ok1, ok2) ==
    /\ adapter = "Chroma6314A"
    /\ CalledWith([op |-> "current_subsystem", tag |-> tag],
                  current_subsystem(inst, tag, PyInt(1), PyInt(0), PyFloat10(25), PyInt(1),
                                    PyStr("10mS"), PyStr("1S"), ok1, ok2))

SaveHardcopy(o) ==
    /\ adapter = "TektronixMSO4000B"
    /\ CalledWith([op |-> "save_hardcopy", o |-> o],
                  save_hardcopy(inst, "D:/", "MSO4000B", o))

VisibleArgs == {0, 1}
ActiveArgs == {0, 7, 8}

TimeMeasurement(vis, act, ok) ==
    /\ adapter = "TektronixMSO4000B"
    /\ CalledWith([op |-> "time_measurement", measure_visible |-> vis,
                   measure_active |-> act],
                  time_measurement(inst, 1, 0, 0, vis, act, 1, ok))

WriteAny(x, ok, reply) ==
    LET r == write_any(adapter, inst, Ctx0, x, ok, reply) IN
    /\ adapter \in Adapters
    /\ CalledWith([op |-> "write", arg |-> x, ok |-> ok, reply |-> reply],
                  [tr |-> r.tr, pr |-> r.pr, ret |-> r.ret, exc |-> "none"])

SaveSetup(ok) ==
    /\ adapter = "TektronixMSO4000B"
    /\ CalledWith([op |-> "save_setup", ok |-> ok], save_setup(inst, "1", ok))

RecallSetup(ok) ==
    /\ adapter = "TektronixMSO4000B"
    /\ CalledWith([op |-> "recall_setup", ok |-> ok], recall_setup(inst, "FACtory", ok))

DeleteSetup(ok) ==
    /\ adapter = "TektronixMSO4000B"
    /\ CalledWith([op |-> "delete_setup", ok |-> ok], delete_setup(inst, "ALL", ok))

Measure(op, ok, reply) ==
    /\ adapter = "Chroma6314A"
    /\ CalledWith([op |-> op, ok |-> ok, reply |-> reply],
                  chroma_query(op, inst, ok, reply))

InitRead ==
    /\ InitObjects
    /\ adapter \in Adapters
    /\ input = NoInput

NextRead ==
    \/ \E res \in {"GPIB0::6::INSTR", "TCPIP0::h::INSTR"}, idn \in BOOLEAN :
          \E o \in Oracles(FALSE, idn) : Open(res, FALSE, idn, o)
    \/ \E ok \in BOOLEAN : Close(ok)
    \/ \E ok \in BOOLEAN, reply \in Replies : ReadOutputVoltage(ok, reply)
    \/ \E ok \in BOOLEAN, reply \in Replies : ReadOutputCurrent(ok, reply)
    \/ \E ok \in BOOLEAN, reply \in Replies : ReadOutputPower(ok, reply)
    \/ \E q \in SettingArgs, ok \in BOOLEAN, reply \in Replies : CommonQ(q, ok, reply)
    \/ \E tag \in SubsystemTags, ok1, ok2 \in BOOLEAN : CurrentSubsystem(tag, ok1, ok2)
    \/ \E o \in HardcopyOracles : SaveHardcopy(o)
    \/ \E ok \in BOOLEAN : SaveSetup(ok)
    \/ \E ok \in BOOLEAN : RecallSetup(ok)
    \/ \E ok \in BOOLEAN : DeleteSetup(ok)
    \/ \E vis \in VisibleArgs, act \in ActiveArgs, ok \in BOOLEAN :
          TimeMeasurement(vis, act, ok)
    \/ \E x \in WriteArgs, ok \in BOOLEAN, reply \in Replies : WriteAny(x, ok, reply)
    \/ \E op \in ChromaQueries, ok \in BOOLEAN, reply \in Replies : Measure(op, ok, reply)
    \/ \E ok \in BOOLEAN : Configure(ok)
    \/ \E ok \in BOOLEAN : Output(ok)
    \/ \E ok \in BOOLEAN : ChannelSubsystem(ok)

SpecRead == InitRead /\ [][NextRead]_vars

(***************************************************************************)
(* Properties of the session's transports and of the read operations.      *)
(***************************************************************************)
\* C13: after any sequence of open and close calls, no transport the adapter
\* opened is left open and unreferenced.
C13_NoOrphanTransport == orphans = 0

VoltageReply == [type |-> "float", mant |-> 1234, frac |-> 3]

\* the reply of the last call reached the adapter
ReplyReceived == inst # <<>> /\ inst[1].open /\ call.ok

\* C15: read_outputvoltage issues exactly one ':MEASure:VOLTage?' query; a
\* numeric reply is returned as its value ("1.234\n" gives 1.234), a
\* non-numeric reply ("ERR") makes the call fail with MalformedReply and
\* return no value.
C15_ReadOutputVoltage ==
    (call.op = "read_outputvoltage" /\ ReplyReceived) =>
        /\ traffic = <<[op |-> "query", cmd |-> ":MEASure:VOLTage?"]>>
        /\ call.reply = "1.234\n" => (raised = "none" /\ ret = Some(VoltageReply))
        /\ call.reply = "ERR" => (raised = "MalformedReply" /\ ret = None)

\* the transport operation of the last call failed and was logged
TransportFailed ==
    \E k \in 1 .. Len(printed) : StartsWith(printed[k], "Command Error: ")

CfgReadOps == {"configure", "output", "channel_subsystem", "read_outputvoltage"}
                  \cup ChromaQueries

\* C16: when the transport operation of a configuration or read operation
\* fails, the failure is logged, no exception reaches the caller and the
\* operation returns None.
C16_TransportFailureSwallowed ==
    (call.op \in CfgReadOps /\ TransportFailed) => (raised = "none" /\ ret = None)

\* C20: every Chroma6314A query operation issues exactly one query and
\* returns the reply the transport produced.
C20_ChromaQueryReturnsReply ==
    (call.op \in ChromaQueries /\ ReplyReceived) =>
        /\ Len(traffic) = 1
        /\ traffic[1].op = "query"
        /\ ret = Some(call.reply)

\* the SCPI commands of the last call's traffic
Commands == {traffic[k].cmd : k \in 1 .. Len(traffic)}

\* C21: KeithleyN6700.read_outputpower issues one power measurement query,
\* a command other than the ':MEASure:CURRent?' of read_outputcurrent.
C21_PowerQueryIsNotCurrentQuery ==
    (adapter = "KeithleyN6700" /\ call.op = "read_outputpower" /\ ReplyReceived) =>
        /\ Len(traffic) = 1
        /\ traffic[1].op = "query"
        /\ ":MEASure:CURRent?" \notin Commands

\* C22: common_Q(setting_q) sends exactly one of the four common queries
\* '*CAL?', '*ESR?', '*STB?', '*TST?', the one the index selects, and returns
\* the instrument's reply, in every adapter that offers common_Q.
C22_CommonQuerySelected ==
    (call.op = "common_Q" /\ ReplyReceived) =>
        /\ raised = "none"
        /\ traffic = <<[op |-> "query", cmd |-> CommonQueries[call.setting_q + 1]]>>
        /\ ret = Some(call.reply)

\* the subsystem the tag of the last current_subsystem call selects
SelectedSubsystem == PyIndex(curr_subsystem, int(call.tag))[1]

\* C23: current_subsystem sends the T1/T2 command exactly when the level
\* command addresses the DYNamic subsystem: static selection gives one write
\* with ':CURRent:STATic:' clauses, dynamic selection gives the level command
\* and then the T1/T2 command, both with ':CURRent:DYNamic:'.
C23_DurationIffDynamic ==
    (call.op = "current_subsystem" /\ raised = "none" /\ inst # <<>>) =>
        IF SelectedSubsystem = "DYNamic"
        THEN /\ Len(traffic) = 2
             /\ StartsWith(traffic[1].cmd, ":CURRent:DYNamic:L1 ")
             /\ StartsWith(traffic[2].cmd, ":CURRent:DYNamic:T1 ")
        ELSE /\ Len(traffic) = 1
             /\ StartsWith(traffic[1].cmd, ":CURRent:STATic:L1 ")

\* the steps of a screen hardcopy, in order
HardcopySteps ==
    <<[op |-> "write", cmd |-> "SAVe:IMAGe 'C:/Temp.png'"],
      [op |-> "query", cmd |-> "*OPC?"],
      [op |-> "write", cmd |-> "FILESystem:READFile 'C:/Temp.png'"],
      [op |-> "read_raw", cmd |-> ""],
      [op |-> "file_write", cmd |-> "D:/MSO4000B.png"],
      [op |-> "write", cmd |-> "FILESystem:DELEte 'C:/Temp.png'"]>>

\* the last save_hardcopy saved the image on the instrument
ImageSaved ==
    call.op = "save_hardcopy" /\ inst # <<>> /\ inst[1].open /\ call.o.save

\* C24: save_hardcopy performs save image, '*OPC?', read file, raw read, local
\* save and remote delete in this order, and whenever the image was saved on
\* the instrument the remote delete is issued before it returns, also when the
\* raw read or the local save fails.
C24_HardcopyDeletesRemoteImage ==
    ImageSaved =>
        /\ Len(traffic) >= 2
        /\ traffic[Len(traffic)] = HardcopySteps[6]
        /\ \A k \in 1 .. Len(traffic) - 1 : k <= 5 /\ traffic[k] = HardcopySteps[k]

\* s contains p as a substring
Contains(s, p) == \E k \in 1 .. Len(s) - Len(p) + 1 : SubSeq(s, k, k + Len(p) - 1) = p

\* "MEAS<x>" for the slot the last time_measurement call selected
Slot == "MEAS" \o IntStr(call.measure_active + 1)

\* C25: time_measurement performs one write whose INDICATORS:STATE clause
\* carries 'OFF' when measure_visible is 0 and 'MEAS<x>' when it is 1, <x>
\* being the slot measure_active selects; the TYPe, STATE and SOUrce1 clauses
\* use the same slot.
C25_IndicatorsState ==
    (call.op = "time_measurement" /\ raised = "none" /\ inst # <<>>) =>
        /\ Len(traffic) = 1
        /\ traffic[1].op = "write"
        /\ Contains(traffic[1].cmd, ":MEASUREMENT:INDICATORS:STATE "
               \o (IF call.measure_visible = 0 THEN "OFF" ELSE Slot) \o ";")
        /\ Contains(traffic[1].cmd, ":MEASUrement:" \o Slot \o ":TYPe ")
        /\ Contains(traffic[1].cmd, ":MEASUrement:" \o Slot \o ":STATE ")
        /\ Contains(traffic[1].cmd, ":MEASUrement:" \o Slot \o ":SOUrce1 ")

\* the adapters whose write routes on '?'
RoutingAdapters == Adapters \ {"Keysight34461A"}

\* the step is a write(cmd) whose cmd is not a string, in a routing adapter
NonStringWrite ==
    /\ adapter \in RoutingAdapters
    /\ call'.op = "write"
    /\ "arg" \in DOMAIN call'
    /\ call'.arg.type # "str"

\* C28: in the adapters whose write routes on '?', write(cmd) with a cmd that
\* is not a string performs no transport operation, raises nothing, returns
\* None and leaves the session state unchanged.
C28_NonStringWriteDoesNothing ==
    [][NonStringWrite =>
          /\ traffic' = <<>>
          /\ raised' = "none"
          /\ ret' = None
          /\ UNCHANGED <<inst, rm, orphans, D>>]_vars

C28_Witness ==
    /\ call.op = "write" /\ "arg" \in DOMAIN call /\ call.arg = PyInt(5)
    /\ adapter = "AgilentE3631A"
    /\ inst # <<>> /\ inst[1].open
    /\ traffic = <<>>
    /\ printed = <<invalid_command_line>>
    /\ ret = None

\* the operations that report their own success
ReportingOps == {"save_setup", "recall_setup", "delete_setup", "save_hardcopy",
                 "ni845xOpen", "ni845xClose", "ni845xSpiConfigurationClose",
                 "ni845xSpiScriptOpen", "ni845xSpiScriptClose",
                 "ni845xSpiStreamConfigurationOpen", "ni845xSpiStreamConfigurationClose"}

SuccessLines == {"Front-panel setup has been saved successfully.",
                 "Front-panel setup has been recalled successfully.",
                 "Front-panel setup has been deleted successfully.",
                 "Hardcopy has saved!!!"}

\* the last operation printed its success line or returned its success string
SuccessReported ==
    \/ \E k \in 1 .. Len(printed) : printed[k] \in SuccessLines
    \/ ret # None /\ StartsWith(ret[1], "Device #: ")

\* a transport write or a driver call of the last operation ended in error
StepFailed ==
    \E k \in 1 .. Len(printed) :
        StartsWith(printed[k], "Command Error: ") \/ StartsWith(printed[k], "Error_code: ")

\* C30: the setup and hardcopy operations of TektronixMSO4000B and the open and
\* close operations of the NI-845x adapters report success only if every
\* transport write or driver call they made completed without error.
C30_SuccessOnlyAfterSuccess ==
    call.op \in ReportingOps => ~(SuccessReported /\ StepFailed)

(***************************************************************************)
(* The NI-845x adapter (General and its subclasses I2C, SPI, SPIStream,    *)
(* SPIScript, DIO) and the vendor driver as its documented prototypes      *)
(* describe it.                                                            *)
(***************************************************************************)
NIAdapters == {"I2C", "SPI", "SPIStream", "SPIScript", "DIO"}

\* the statuses a driver entry point returns: 0 is success
DriverCodes == {0, -301700}
InvalidHandle == 0 - 301706
DeviceNotFound == 0 - 301700

Bytes == {0, 170}
DeviceName == "USB-8452"
NextDeviceName == "USB-8452-B"

Acquire(out, k) == [out EXCEPT ![k] = @ + 1]
Release(out, k) == [out EXCEPT ![k] = @ - 1]

\* the status of a driver call on handle h that would otherwise return rc
OnHandle(h, rc) == IF h = "open" THEN rc ELSE InvalidHandle

\* a call of a driver entry point: the adapter fields passed as handles, by
\* reference or by value, and the other arguments
DrvCall(entry, handles, byref, vals) ==
    [entry |-> entry, handles |-> handles, byref |-> byref, vals |-> vals]

\* what ni845xStatusToString prints for a status
ni845xStatusToString(rc) == "Error_code: " \o IntStr(rc)

\* self.ni845xStatusToString(returnvalue): one lookup in the driver, one line
Lookup(rc) ==
    [tr |-> <<DrvCall("ni845xStatusToString", <<>>, FALSE, <<rc>>)>>,
     pr |-> <<ni845xStatusToString(rc)>>]

\* returnvalue = <driver call c>; if returnvalue != 0: self.ni845xStatusToString(...)
Checked(c, rc) ==
    [tr |-> <<c>> \o (IF rc # 0 THEN Lookup(rc).tr ELSE <<>>),
     pr |-> IF rc # 0 THEN Lookup(rc).pr ELSE <<>>]

\* returnvalue = <driver call c>; if returnvalue != 0: ni845xStatusToString(...)
\* where the name is not bound: a NameError instead of a lookup
Unbound(c, rc, pr) ==
    [tr |-> <<c>>, pr |-> pr, ret |-> None,
     exc |-> IF rc # 0 THEN "NameError" ELSE "none"]

\* f"Device #: {str(self.first_device.value)} ..." : the success string, or the
\* AttributeError of None.value when no discovery ever ran
DeviceString(fd, what) ==
    IF fd = None THEN [ret |-> None, exc |-> "AttributeError"]
    ELSE [ret |-> Some("Device #: " \o fd[1] \o " " \o what), exc |-> "none"]

\* the result of an open or close operation whose driver call c returned rc:
\* a lookup on error, else the success string
StatusResult(c, rc, fd, what) ==
    IF rc # 0
    THEN [tr |-> Checked(c, rc).tr, pr |-> Checked(c, rc).pr, ret |-> None,
          exc |-> "none"]
    ELSE [tr |-> <<c>>, pr |-> <<>>, ret |-> DeviceString(fd, what).ret,
          exc |-> DeviceString(fd, what).exc]

\* an operation that returns nothing: a lookup on error
StatusOnly(c, rc) ==
    [tr |-> Checked(c, rc).tr, pr |-> Checked(c, rc).pr, ret |-> None, exc |-> "none"]

Finished(op, r) ==
    /\ call' = op
    /\ traffic' = r.tr
    /\ printed' = r.pr
    /\ ret' = r.ret
    /\ raised' = r.exc

\* the driver's FindDevice is handed number_found by value, not by reference:
\* it may tolerate that and report a device, return an error, or fault
FindOutcomes == {"found", "error", "fault"}

\* the body of ni845xFindDevice: the name buffer is created first, then the
\* driver fills it and the find handle
FindDevice(find) ==
    LET c == DrvCall("ni845xFindDevice", <<"find_device_handle">>, TRUE, <<>>) IN
    CASE find = "found" ->
           [first |-> Some(DeviceName), fh |-> "open", out |-> Acquire(outstanding, "find"),
            tr |-> <<c>>, pr |-> <<"Find Devicename: " \o DeviceName>>, ret |-> None,
            exc |-> "none"]
      [] find = "error" ->
           [first |-> Some(""), fh |-> find_device_handle, out |-> outstanding,
            tr |-> Checked(c, DeviceNotFound).tr,
            pr |-> <<"Find Devicename: ">> \o Checked(c, DeviceNotFound).pr, ret |-> None,
            exc |-> "none"]
      [] find = "fault" ->
           [first |-> Some(""), fh |-> find_device_handle, out |-> outstanding,
            tr |-> <<c>>, pr |-> <<>>, ret |-> None, exc |-> "OSError"]

\* the body of ni845xFindDeviceNext: the find handle is passed by value, the
\* driver fills self.next_device; the status lookup is called without self
FindDeviceNext(rc0) ==
    LET rc == OnHandle(find_device_handle, rc0)
        c == DrvCall("ni845xFindDeviceNext", <<"find_device_handle">>, FALSE, <<>>)
        r == Unbound(c, rc, <<"returnvalue ni845xFindDeviceNext " \o IntStr(rc),
                              "Next DeviceName:">>)
    IN  [next |-> Some(IF rc = 0 THEN NextDeviceName ELSE ""),
         tr |-> r.tr, pr |-> r.pr, ret |-> None, exc |-> r.exc]

\* the driver hands out at most MaxHandles handles in all
HandlesBounded(out) ==
    out["device"] + out["configuration"] + out["script"] + out["find"] <= MaxHandles

ni845xFindDevice(find) ==
    LET f == FindDevice(find) IN
    /\ HandlesBounded(f.out)
    /\ Finished([op |-> "ni845xFindDevice"], f)
    /\ first_device' = f.first
    /\ find_device_handle' = f.fh
    /\ outstanding' = f.out
    /\ UNCHANGED <<scpiVars, argVars, device_handle, script_handle, script_read_index,
                   status, drvScript, drvReadData, configuration_handle, next_device>>

ni845xFindDeviceNext(rc0) ==
    LET n == FindDeviceNext(rc0) IN
    /\ Finished([op |-> "ni845xFindDeviceNext", rc |-> OnHandle(find_device_handle, rc0)],
                n)
    /\ next_device' = n.next
    /\ UNCHANGED <<scpiVars, argVars, first_device, device_handle, script_handle,
                   script_read_index, status, drvScript, drvReadData,
                   configuration_handle, find_device_handle, outstanding>>

ni845xCloseFindDeviceHandle(rc0) ==
    LET rc == OnHandle(find_device_handle, rc0)
        c == DrvCall("ni845xCloseFindDeviceHandle", <<"find_device_handle">>, FALSE, <<>>)
    IN  /\ Finished([op |-> "ni845xCloseFindDeviceHandle", rc |-> rc], StatusOnly(c, rc))
        /\ find_device_handle' = IF rc = 0 THEN "closed" ELSE find_device_handle
        /\ outstanding' = IF rc = 0 THEN Release(outstanding, "find") ELSE outstanding
        /\ UNCHANGED <<scpiVars, argVars, first_device, device_handle, script_handle,
                       script_read_index, status, drvScript, drvReadData,
                       configuration_handle, next_device>>

\* ni845xDeviceLock and ni845xDeviceUnlock hand the driver self.find_device_handle
\* where it expects the device handle; rc is the status it returns for that
ni845xDeviceLock(rc) ==
    /\ Finished([op |-> "ni845xDeviceLock", rc |-> rc],
                Unbound(DrvCall("ni845xDeviceLock", <<"find_device_handle">>, FALSE, <<>>), rc,
                        <<"returnvalue ni845xDeviceLock " \o IntStr(rc)>>))
    /\ UNCHANGED <<scpiVars, argVars, spiVars>>

ni845xDeviceUnlock(rc) ==
    /\ Finished([op |-> "ni845xDeviceUnlock", rc |-> rc],
                Unbound(DrvCall("ni845xDeviceUnlock", <<"find_device_handle">>, FALSE, <<>>), rc,
                        <<"returnvalue ni845xDeviceUnlock " \o IntStr(rc)>>))
    /\ UNCHANGED <<scpiVars, argVars, spiVars>>

\* ni845xOpen(): o.find is the outcome of FindDevice, o.next the status of the
\* FindDeviceNext that runs when FindDevice raised, o.rc the status of the
\* driver's Open, which is always given self.first_device
ni845xOpen(o) ==
    LET f == FindDevice(o.find)
        n == FindDeviceNext(o.next)
        fellback == f.exc # "none"
        tr0 == IF fellback THEN f.tr \o n.tr ELSE f.tr
        pr0 == IF fellback THEN f.pr \o n.pr ELSE f.pr
        name == f.first[1]
        c == DrvCall("ni845xOpen", <<"device_handle">>, TRUE, <<name>>)
        rc == IF name = "" THEN InvalidHandle ELSE o.rc
        r == StatusResult(c, rc, f.first, "Port has been opened succesfully.")
    IN  /\ first_device' = f.first
        /\ find_device_handle' = f.fh
        /\ next_device' = IF fellback THEN n.next ELSE next_device
        /\ IF fellback /\ n.exc # "none"
           THEN /\ Finished([op |-> "ni845xOpen"],
                            [tr |-> tr0, pr |-> pr0, ret |-> None, exc |-> n.exc])
                /\ outstanding' = f.out
                /\ UNCHANGED device_handle
           ELSE /\ Finished([op |-> "ni845xOpen"],
                            [r EXCEPT !.tr = tr0 \o r.tr, !.pr = pr0 \o r.pr])
                /\ device_handle' = IF rc = 0 THEN "open" ELSE device_handle
                /\ outstanding' = IF rc = 0 THEN Acquire(f.out, "device") ELSE f.out
        /\ HandlesBounded(outstanding')
        /\ UNCHANGED <<scpiVars, argVars, script_handle, script_read_index, status,
                       drvScript, drvReadData, configuration_handle>>

\* the outcomes of the driver calls of ni845xOpen that its result depends on
OpenOracles ==
    [find : {"found"}, next : {0}, rc : DriverCodes]
    \cup [find : {"error"}, next : {0}, rc : {0}]
    \cup [find : {"fault"}, next : DriverCodes, rc : {0}]

ni845xClose(rc0) ==
    LET rc == OnHandle(device_handle, rc0)
        c == DrvCall("ni845xClose", <<"device_handle">>, FALSE, <<>>)
    IN  /\ Finished([op |-> "ni845xClose", was |-> device_handle, rc |-> rc],
                    StatusResult(c, rc, first_device, "Port has been closed succesfully."))
        /\ device_handle' = IF rc = 0 THEN "closed" ELSE device_handle
        /\ outstanding' = IF rc = 0 THEN Release(outstanding, "device") ELSE outstanding
        /\ UNCHANGED <<scpiVars, argVars, first_device, script_handle, script_read_index,
                       status, drvScript, drvReadData, configuration_handle,
                       find_device_handle, next_device>>

(***************************************************************************)
(* Configuration handles: I2C, SPI, SPIStream.                             *)
(***************************************************************************)
\* a successful driver Open stores a new handle in self.configuration_handle
ConfigurationOpened(rc) ==
    /\ configuration_handle' = IF rc = 0 THEN "open" ELSE configuration_handle
    /\ outstanding' = IF rc = 0 THEN Acquire(outstanding, "configuration")
                      ELSE outstanding
    /\ HandlesBounded(outstanding')
    /\ UNCHANGED <<scpiVars, argVars, first_device, device_handle, script_handle,
                   script_read_index, status, drvScript, drvReadData,
                   find_device_handle, next_device>>

\* a successful driver Close releases the handle self.configuration_handle holds
ConfigurationClosed(rc) ==
    /\ configuration_handle' = IF rc = 0 THEN "closed" ELSE configuration_handle
    /\ outstanding' = IF rc = 0 THEN Release(outstanding, "configuration")
                      ELSE outstanding
    /\ UNCHANGED <<scpiVars, argVars, first_device, device_handle, script_handle,
                   script_read_index, status, drvScript, drvReadData,
                   find_device_handle, next_device>>

ni845xI2cConfigurationOpen(rc) ==
    /\ adapter = "I2C"
    /\ Finished([op |-> "ni845xI2cConfigurationOpen", rc |-> rc],
                StatusOnly(DrvCall("ni845xI2cConfigurationOpen", <<"configuration_handle">>,
                                   TRUE, <<>>), rc))
    /\ ConfigurationOpened(rc)

\* the driver's ConfigurationOpen is handed the handle's value where it expects
\* the address to store a new handle at
WrongEntryOutcomes == {"error", "fault", "silent"}

\* ni845xI2cConfigurationClose calls the driver's ni845xI2cConfigurationOpen with
\* self.configuration_handle by value: the driver rejects the argument (error),
\* faults on it (fault), or stores a new handle through it (silent); the handle
\* the adapter holds is not closed in any of them
ni845xI2cConfigurationClose(ub) ==
    LET c == DrvCall("ni845xI2cConfigurationOpen", <<"configuration_handle">>, FALSE, <<>>)
        rc == IF ub = "silent" THEN 0 ELSE InvalidHandle
    IN  /\ adapter = "I2C"
        /\ Finished([op |-> "ni845xI2cConfigurationClose", was |-> configuration_handle,
                     rc |-> rc],
                    IF ub = "fault"
                    THEN [tr |-> <<c>>, pr |-> <<>>, ret |-> None, exc |-> "OSError"]
                    ELSE StatusOnly(c, rc))
        /\ outstanding' = IF ub = "silent" THEN Acquire(outstanding, "configuration")
                          ELSE outstanding
        /\ HandlesBounded(outstanding')
        /\ UNCHANGED <<scpiVars, argVars, first_device, device_handle, script_handle,
                       script_read_index, status, drvScript, drvReadData,
                       configuration_handle, find_device_handle, next_device>>

ni845xSpiConfigurationOpen(rc) ==
    /\ adapter = "SPI"
    /\ Finished([op |-> "ni845xSpiConfigurationOpen", rc |-> rc],
                StatusOnly(DrvCall("ni845xSpiConfigurationOpen", <<"configuration_handle">>,
                                   TRUE, <<>>), rc))
    /\ ConfigurationOpened(rc)

\* ni845xSpiConfigurationClose returns the success string whatever the status
ni845xSpiConfigurationClose(rc0) ==
    LET rc == OnHandle(configuration_handle, rc0)
        k == Checked(DrvCall("ni845xSpiConfigurationClose", <<"configuration_handle">>,
                             FALSE, <<>>), rc)
        s == DeviceString(first_device, "configuration has been closed succesfully.")
    IN  /\ adapter = "SPI"
        /\ Finished([op |-> "ni845xSpiConfigurationClose", was |-> configuration_handle,
                     rc |-> rc],
                    [tr |-> k.tr, pr |-> k.pr, ret |-> s.ret, exc |-> s.exc])
        /\ ConfigurationClosed(rc)

ni845xSpiStreamConfigurationOpen(rc) ==
    /\ adapter = "SPIStream"
    /\ Finished([op |-> "ni845xSpiStreamConfigurationOpen", rc |-> rc],
                StatusResult(DrvCall("ni845xSpiStreamConfigurationOpen",
                                     <<"configuration_handle">>, TRUE, <<>>),
                             rc, first_device,
                             "configuration has been closed succesfully."))
    /\ ConfigurationOpened(rc)

ni845xSpiStreamConfigurationClose(rc0) ==
    LET rc == OnHandle(configuration_handle, rc0) IN
    /\ adapter = "SPIStream"
    /\ Finished([op |-> "ni845xSpiStreamConfigurationClose",
                 was |-> configuration_handle, rc |-> rc],
                StatusResult(DrvCall("ni845xSpiStreamConfigurationClose",
                                     <<"configuration_handle">>, FALSE, <<>>),
                             rc, first_device,
                             "configuration has been closed succesfully."))
    /\ ConfigurationClosed(rc)

(***************************************************************************)
(* SPI scripting.                                                          *)
(***************************************************************************)
ni845xSpiScriptOpen(rc) ==
    /\ adapter = "SPIScript"
    /\ Finished([op |-> "ni845xSpiScriptOpen"],
                StatusResult(DrvCall("ni845xSpiScriptOpen", <<"script_handle">>, TRUE, <<>>),
                             rc, first_device, "SPI script opened succesfully."))
    /\ IF rc = 0
       THEN /\ script_handle' = "open"
            /\ drvScript' = <<>>
            /\ drvReadData' = <<>>
            /\ outstanding' = Acquire(outstanding, "script")
       ELSE UNCHANGED <<script_handle, drvScript, drvReadData, outstanding>>
    /\ HandlesBounded(outstanding')
    /\ UNCHANGED <<scpiVars, argVars, first_device, device_handle, script_read_index,
                   status, configuration_handle, find_device_handle, next_device>>

ni845xSpiScriptClose(rc0) ==
    LET rc == OnHandle(script_handle, rc0)
    IN  /\ adapter = "SPIScript"
        /\ Finished([op |-> "ni845xSpiScriptClose", was |-> script_handle, rc |-> rc],
                    StatusResult(DrvCall("ni845xSpiScriptClose", <<"script_handle">>,
                                         FALSE, <<>>),
                                 rc, first_device, "SPI script closed succesfully."))
        /\ IF rc = 0
           THEN /\ script_handle' = "closed"
                /\ drvScript' = <<>>
                /\ drvReadData' = <<>>
                /\ outstanding' = Release(outstanding, "script")
           ELSE UNCHANGED <<script_handle, drvScript, drvReadData, outstanding>>
        /\ UNCHANGED <<scpiVars, argVars, first_device, device_handle, script_read_index,
                       status, configuration_handle, find_device_handle, next_device>>

\* (c.c_uint8 * size)(*data): data padded with zeros to size
CArray(size, data) == [j \in 1 .. size |-> IF j <= Len(data) THEN data[j] ELSE 0]

\* ni845xSpiScriptWriteRead(writesize, writedata, scriptreadindex): the third
\* argument is not used; the driver stores the step's index in
\* self.script_read_index
ni845xSpiScriptWriteRead(writesize, writedata, rc0) ==
    LET rc == OnHandle(script_handle, rc0)
        c == DrvCall("ni845xSpiScriptWriteRead", <<"script_handle">>, FALSE, <<writesize>>)
    IN  /\ adapter = "SPIScript"
        /\ Len(drvScript) < MaxSteps
        /\ IF Len(writedata) > writesize
           THEN /\ Finished([op |-> "ni845xSpiScriptWriteRead"],
                            [tr |-> <<>>, pr |-> <<>>, ret |-> None, exc |-> "IndexError"])
                /\ UNCHANGED <<script_read_index, status, drvScript>>
           ELSE /\ Finished([op |-> "ni845xSpiScriptWriteRead"], StatusOnly(c, rc))
                /\ status' = IF rc # 0 THEN rc ELSE status
                /\ IF rc = 0
                   THEN /\ drvScript' = Append(drvScript, CArray(writesize, writedata))
                        /\ script_read_index' = Len(drvScript)
                   ELSE UNCHANGED <<script_read_index, drvScript>>
        /\ UNCHANGED <<scpiVars, argVars, first_device, device_handle, script_handle,
                       drvReadData, drvVars>>

\* the read data a run can produce: as many bytes per step as the step wrote,
\* each step reading one byte value throughout
RECURSIVE ReadDataOf(_)
ReadDataOf(script) ==
    IF script = <<>> THEN {<<>>}
    ELSE {Append(r, [j \in 1 .. Len(script[Len(script)]) |-> b]) :
              r \in ReadDataOf(SubSeq(script, 1, Len(script) - 1)), b \in Bytes}

ni845xSpiScriptRun(rc0, data) ==
    LET rc == IF device_handle = "open" THEN OnHandle(script_handle, rc0)
              ELSE InvalidHandle
        c == DrvCall("ni845xSpiScriptRun", <<"script_handle", "device_handle">>, FALSE,
                     <<0>>)
    IN  /\ adapter = "SPIScript"
        /\ Finished([op |-> "ni845xSpiScriptRun"], StatusOnly(c, rc))
        /\ drvReadData' = IF rc = 0 THEN data ELSE drvReadData
        /\ UNCHANGED <<scpiVars, argVars, first_device, device_handle, script_handle,
                       script_read_index, status, drvScript, drvVars>>

\* the list ni845xSpiScriptExtractReadData returns: a buffer of n bytes into
\* which the driver copied the read data d
extract_buffer(n, d) == [j \in 1 .. n |-> IF j <= Len(d) THEN d[j] ELSE 0]

\* ni845xSpiScriptExtractReadData(scriptreadindex): the argument sizes the
\* buffer, the driver is asked for the data at self.script_read_index; when the
\* data is longer than the buffer the driver writes past its end, which goes
\* unnoticed (ub = "silent") or faults (ub = "fault")
ni845xSpiScriptExtractReadData(scriptreadindex, rc0, ub) ==
    LET known == script_handle = "open" /\ script_read_index < Len(drvReadData)
        rc == IF known THEN rc0 ELSE InvalidHandle
        d == IF rc = 0 THEN drvReadData[script_read_index + 1] ELSE <<>>
        over == Len(d) > scriptreadindex
        c == DrvCall("ni845xSpiScriptExtractReadData", <<"script_handle">>, FALSE,
                     <<script_read_index>>)
    IN  /\ adapter = "SPIScript"
        /\ Finished([op |-> "ni845xSpiScriptExtractReadData", index |-> scriptreadindex],
                    IF over /\ ub = "fault"
                    THEN [tr |-> <<c>>, pr |-> <<>>, ret |-> None, exc |-> "OSError"]
                    ELSE [tr |-> Checked(c, rc).tr, pr |-> Checked(c, rc).pr,
                          ret |-> Some(extract_buffer(scriptreadindex, d)),
                          exc |-> "none"])
        /\ status' = IF rc # 0 THEN rc ELSE status
        /\ UNCHANGED <<scpiVars, argVars, first_device, device_handle, script_handle,
                       script_read_index, drvScript, drvReadData, drvVars>>

WriteData == {<<170>>, <<170, 170>>}
WriteSizes == 1 .. 2

InitScript == InitObjects /\ adapter = "SPIScript" /\ D = <<>> /\ input = NoInput

NextScript ==
    \/ \E o \in {x \in OpenOracles : x.find # "fault"} : ni845xOpen(o)
    \/ \E rc \in DriverCodes : ni845xClose(rc)
    \/ \E rc \in DriverCodes : ni845xSpiScriptOpen(rc)
    \/ \E rc \in DriverCodes : ni845xSpiScriptClose(rc)
    \/ \E ws \in WriteSizes, wd \in WriteData, rc \in DriverCodes :
          ni845xSpiScriptWriteRead(ws, wd, rc)
    \/ \E rc \in DriverCodes, data \in ReadDataOf(drvScript) : ni845xSpiScriptRun(rc, data)
    \/ \E n \in 0 .. MaxIndexArg, rc \in DriverCodes, ub \in {"silent", "fault"} :
          ni845xSpiScriptExtractReadData(n, rc, ub)

SpecScript == InitScript /\ [][NextScript]_vars

\* the script was run after its last step was appended
ScriptRan == Len(drvScript) >= 1 /\ Len(drvReadData) = Len(drvScript)

\* C10: after a run of a script of k >= 1 write/read steps, extracting with the
\* index assigned to step i returns exactly the bytes the driver read for
\* step i, for every i in 1..k.
C10_ExtractReturnsStepData ==
    (/\ call.op = "ni845xSpiScriptExtractReadData"
     /\ script_handle = "open"
     /\ ScriptRan
     /\ call.index < Len(drvReadData)
     /\ status = 0
     /\ raised = "none") =>
        ret = Some(drvReadData[call.index + 1])

(***************************************************************************)
(* Basic reads: I2C, SPI, SPI stream.                                      *)
(***************************************************************************)
ReadSizes == {2}

\* the bytes a device can return to a read of n bytes
ReadData(n) == {[j \in 1 .. n |-> b] : b \in Bytes}

\* the status of a basic transfer, which needs both handles
OnSession(rc) ==
    IF device_handle = "open" /\ configuration_handle = "open" THEN rc ELSE InvalidHandle

\* the read buffer after the driver call: the bytes read, or the zeros the
\* array was created with when the call failed
read_buffer(n, rc, data) == IF rc = 0 THEN data ELSE CArray(n, <<>>)

\* a transfer that stores every status, so that a success clears self.status
StatusStored(rc) ==
    /\ status' = rc
    /\ UNCHANGED <<scpiVars, argVars, first_device, device_handle, script_handle,
                   script_read_index, drvScript, drvReadData, drvVars>>

\* what the I2C and SPI transfers do with a non-zero status: a lookup, and the
\* status is kept in self.status, which nothing resets
StatusKept(rc) ==
    /\ status' = IF rc # 0 THEN rc ELSE status
    /\ UNCHANGED <<scpiVars, argVars, first_device, device_handle, script_handle,
                   script_read_index, drvScript, drvReadData, drvVars>>

ni845xI2cRead(noofbytestoread, rc0, data) ==
    LET rc == OnSession(rc0)
        k == Checked(DrvCall("ni845xI2cRead", <<"device_handle", "configuration_handle">>,
                             FALSE, <<noofbytestoread>>), rc)
    IN  /\ adapter = "I2C"
        /\ Finished([op |-> "ni845xI2cRead", rc |-> rc],
                    [tr |-> k.tr, pr |-> k.pr,
                     ret |-> Some(read_buffer(noofbytestoread, rc, data)), exc |-> "none"])
        /\ StatusKept(rc)

ni845xI2cWriteRead(writesize, writedata, noofbytestoread, rc0, data) ==
    LET rc == OnSession(rc0)
        k == Checked(DrvCall("ni845xI2cWriteRead",
                             <<"device_handle", "configuration_handle">>, FALSE,
                             <<writesize, noofbytestoread>>), rc)
    IN  /\ adapter = "I2C"
        /\ IF Len(writedata) > writesize
           THEN /\ Finished([op |-> "ni845xI2cWriteRead", rc |-> 0],
                            [tr |-> <<>>, pr |-> <<>>, ret |-> None, exc |-> "IndexError"])
                /\ UNCHANGED <<scpiVars, argVars, spiVars>>
           ELSE /\ Finished([op |-> "ni845xI2cWriteRead", rc |-> rc],
                            [tr |-> k.tr, pr |-> k.pr,
                             ret |-> Some(read_buffer(noofbytestoread, rc, data)),
                             exc |-> "none"])
                /\ StatusKept(rc)

\* ni845xSpiWriteRead returns [read data, len(read data)]
ni845xSpiWriteRead(writesize, writedata, readsize, rc0, data) ==
    LET rc == OnSession(rc0)
        k == Checked(DrvCall("ni845xSpiWriteRead",
                             <<"device_handle", "configuration_handle">>, FALSE,
                             <<writesize, readsize>>), rc)
    IN  /\ adapter = "SPI"
        /\ IF Len(writedata) > writesize
           THEN /\ Finished([op |-> "ni845xSpiWriteRead", rc |-> 0],
                            [tr |-> <<>>, pr |-> <<>>, ret |-> None, exc |-> "IndexError"])
                /\ UNCHANGED <<scpiVars, argVars, spiVars>>
           ELSE /\ Finished([op |-> "ni845xSpiWriteRead", rc |-> rc],
                            [tr |-> k.tr, pr |-> k.pr,
                             ret |-> Some(<<read_buffer(readsize, rc, data), readsize>>),
                             exc |-> "none"])
                /\ StatusKept(rc)

\* ni845xSpiStreamRead returns the list only when the status is zero, and does
\* not touch self.status
ni845xSpiStreamRead(numbytestoread, rc0, data) ==
    LET rc == OnSession(rc0)
        k == Checked(DrvCall("ni845xSpiStreamRead",
                             <<"device_handle", "configuration_handle">>, FALSE,
                             <<numbytestoread>>), rc)
    IN  /\ adapter = "SPIStream"
        /\ Finished([op |-> "ni845xSpiStreamRead", rc |-> rc],
                    [tr |-> k.tr, pr |-> k.pr,
                     ret |-> IF rc = 0 THEN Some(data) ELSE None, exc |-> "none"])
        /\ UNCHANGED <<scpiVars, argVars, spiVars>>

(***************************************************************************)
(* Digital I/O.                                                            *)
(***************************************************************************)
Ports == {0}
Lines == {7}
LineLevels == {0, 1}
PortValues == {0, 170}

\* int("".join(filter(str.isdigit, str(x)))) for x = c_int32(v), whose str is
\* "c_long(v)"
digits_of(v) == ParseNat(FilterDigits("c_long(" \o IntStr(v) \o ")"))

DioDone == UNCHANGED <<scpiVars, argVars, spiVars>>

ni845xDioWriteLine(portnumber, linenumber, writedata, rc0) ==
    LET rc == OnHandle(device_handle, rc0) IN
    /\ adapter = "DIO"
    /\ Finished([op |-> "ni845xDioWriteLine", rc |-> rc],
                StatusOnly(DrvCall("ni845xDioWriteLine", <<"device_handle">>, FALSE,
                                   <<portnumber, linenumber, writedata>>), rc))
    /\ DioDone

\* ni845xDioWritePort calls the driver's ni845xDioWriteLine with (port, data):
\* the driver takes data for the line number and finds no value to write
ni845xDioWritePort(portnumber, writedata, rc0) ==
    LET rc == OnHandle(device_handle, rc0) IN
    /\ adapter = "DIO"
    /\ Finished([op |-> "ni845xDioWritePort", rc |-> rc],
                StatusOnly(DrvCall("ni845xDioWriteLine", <<"device_handle">>, FALSE,
                                   <<portnumber, writedata>>), rc))
    /\ DioDone

\* ni845xDioReadLine: v is the level the driver stores on success
ni845xDioReadLine(portnumber, linenumber, rc0, v) ==
    LET rc == OnHandle(device_handle, rc0)
        k == Checked(DrvCall("ni845xDioReadLine", <<"device_handle">>, FALSE,
                             <<portnumber, linenumber>>), rc)
    IN  /\ adapter = "DIO"
        /\ Finished([op |-> "ni845xDioReadLine", rc |-> rc, stored |-> IF rc = 0 THEN v ELSE 0],
                    [tr |-> k.tr, pr |-> k.pr,
                     ret |-> Some(digits_of(IF rc = 0 THEN v ELSE 0)), exc |-> "none"])
        /\ DioDone

\* ni845xDioReadPort calls the driver's ni845xDioReadLine with (port,
\* byref(readport)): the driver takes the address for the line number and has
\* no address to store at, so readport keeps the 0 it was created with
ni845xDioReadPort(portnumber, ub) ==
    LET c == DrvCall("ni845xDioReadLine", <<"device_handle">>, FALSE, <<portnumber>>)
        rc == IF ub = "silent" THEN 0 ELSE InvalidHandle
    IN  /\ adapter = "DIO"
        /\ Finished([op |-> "ni845xDioReadPort", rc |-> rc],
                    IF ub = "fault"
                    THEN [tr |-> <<c>>, pr |-> <<>>, ret |-> None, exc |-> "OSError"]
                    ELSE [tr |-> Checked(c, rc).tr, pr |-> Checked(c, rc).pr,
                          ret |-> Some(digits_of(0)), exc |-> "none"])
        /\ DioDone

(***************************************************************************)
(* The native-driver specification: discovery, handles, transfers, DIO.    *)
(***************************************************************************)
InitDrv == InitObjects /\ adapter \in NIAdapters /\ D = <<>> /\ input = NoInput

NextDrv ==
    \/ \E find \in FindOutcomes : ni845xFindDevice(find)
    \/ \E rc \in DriverCodes : ni845xFindDeviceNext(rc)
    \/ \E rc \in DriverCodes : ni845xCloseFindDeviceHandle(rc)
    \/ \E rc \in DriverCodes : ni845xDeviceLock(rc)
    \/ \E rc \in DriverCodes : ni845xDeviceUnlock(rc)
    \/ \E o \in OpenOracles : ni845xOpen(o)
    \/ \E rc \in DriverCodes : ni845xClose(rc)
    \/ \E rc \in DriverCodes : ni845xI2cConfigurationOpen(rc)
    \/ \E ub \in WrongEntryOutcomes : ni845xI2cConfigurationClose(ub)
    \/ \E rc \in DriverCodes : ni845xSpiConfigurationOpen(rc)
    \/ \E rc \in DriverCodes : ni845xSpiConfigurationClose(rc)
    \/ \E rc \in DriverCodes : ni845xSpiStreamConfigurationOpen(rc)
    \/ \E rc \in DriverCodes : ni845xSpiStreamConfigurationClose(rc)
    \/ \E rc \in DriverCodes : ni845xSpiScriptOpen(rc)
    \/ \E rc \in DriverCodes : ni845xSpiScriptClose(rc)
    \/ \E n \in ReadSizes, rc \in DriverCodes : \E data \in ReadData(n) :
          ni845xI2cRead(n, rc, data)
    \/ \E ws \in WriteSizes, n \in ReadSizes, rc \in DriverCodes :
          \E data \in ReadData(n) : ni845xI2cWriteRead(ws, <<170, 170>>, n, rc, data)
    \/ \E ws \in WriteSizes, n \in ReadSizes, rc \in DriverCodes :
          \E data \in ReadData(n) : ni845xSpiWriteRead(ws, <<170, 170>>, n, rc, data)
    \/ \E n \in ReadSizes, rc \in DriverCodes : \E data \in ReadData(n) :
          ni845xSpiStreamRead(n, rc, data)
    \/ \E p \in Ports, l \in Lines, v \in LineLevels, rc \in DriverCodes :
          ni845xDioWriteLine(p, l, v, rc)
    \/ \E p \in Ports, v \in PortValues, rc \in DriverCodes : ni845xDioWritePort(p, v, rc)
    \/ \E p \in Ports, l \in Lines, rc \in DriverCodes, v \in LineLevels :
          ni845xDioReadLine(p, l, rc, v)
    \/ \E p \in Ports, ub \in WrongEntryOutcomes : ni845xDioReadPort(p, ub)

SpecDrv == InitDrv /\ [][NextDrv]_vars

(***************************************************************************)
(* Properties of the native-driver operations.                             *)
(***************************************************************************)
CloseOps == {"ni845xI2cConfigurationClose", "ni845xSpiConfigurationClose",
             "ni845xSpiStreamConfigurationClose", "ni845xSpiScriptClose"}

\* the adapter field a Close operation is about, and its state
ClosedField(op) == IF op = "ni845xSpiScriptClose" THEN "script_handle"
                   ELSE "configuration_handle"
ClosedHandle(op) == IF op = "ni845xSpiScriptClose" THEN script_handle
                    ELSE configuration_handle

\* C11: for each handle kind (I2C, SPI, SPI-stream configuration, SPI script),
\* Close on a handle its Open obtained calls the driver's Close entry point of
\* the same name with that handle, and the handle is released.
C11_CloseReleasesHandle ==
    (call.op \in CloseOps /\ call.was = "open") =>
        /\ traffic # <<>>
        /\ traffic[1] = DrvCall(call.op, <<ClosedField(call.op)>>, FALSE, <<>>)
        /\ (raised = "none" /\ call.rc = 0) => ClosedHandle(call.op) = "closed"

\* C12: after any sequence of open and close operations the driver has at
\* most one outstanding handle of each kind.
C12_AtMostOneHandlePerKind ==
    \A k \in HandleKinds : outstanding[k] <= 1

\* the status lookups among the driver calls of the last operation
Lookups == SelectSeq(traffic, LAMBDA c : c.entry = "ni845xStatusToString")

\* the last operation received a status from the driver entry point it called
StatusReturned == "rc" \in DOMAIN call /\ raised # "OSError" /\ raised # "IndexError"

\* C14: a non-zero status returned by the driver leads to exactly one
\* status-to-string lookup for that code and the operation returns without
\* raising; a zero status leads to no lookup.
C14_NonZeroStatusOneLookup ==
    StatusReturned =>
        IF call.rc # 0
        THEN /\ raised = "none"
             /\ Lookups = <<DrvCall("ni845xStatusToString", <<>>, FALSE, <<call.rc>>)>>
        ELSE Lookups = <<>>

DioOps == {"ni845xDioWriteLine", "ni845xDioWritePort", "ni845xDioReadLine",
           "ni845xDioReadPort"}

\* the driver calls of the last operation other than status lookups
EntryCalls == SelectSeq(traffic, LAMBDA c : c.entry # "ni845xStatusToString")

\* C17: each DIO operation makes exactly one driver call, to the entry point
\* of the same name, with the device handle; a line read returns the value the
\* driver stored.
C17_DioCallsOwnEntry ==
    call.op \in DioOps =>
        /\ Len(EntryCalls) = 1
        /\ EntryCalls[1].entry = call.op
        /\ EntryCalls[1].handles = <<"device_handle">>
        /\ (call.op = "ni845xDioReadLine" /\ call.rc = 0) => ret = Some(call.stored)

ReadOps == {"ni845xI2cRead", "ni845xI2cWriteRead", "ni845xSpiWriteRead",
            "ni845xSpiStreamRead"}

\* C18: after a read operation, the returned value and self.status tell
\* whether the call failed: it failed exactly when nothing was returned or
\* the status field is non-zero.
C18_FailureDistinguishable ==
    (call.op \in ReadOps /\ raised = "none") =>
        (call.rc # 0 <=> (ret = None \/ status # 0))

\* the positions of the driver's entry e among the calls of the last operation
CallsOf(e) == {k \in 1 .. Len(traffic) : traffic[k].entry = e}

\* the name discovery produced for the last ni845xOpen: the next device's when
\* the fallback ran, else the first device's
Discovered ==
    IF CallsOf("ni845xFindDeviceNext") # {} THEN next_device[1] ELSE first_device[1]

\* C19: ni845xOpen calls the driver's FindDevice before its Open, hands Open
\* the name discovery produced, and does not call Open when discovery yields
\* no device.
C19_DiscoveryBeforeOpen ==
    call.op = "ni845xOpen" =>
        /\ traffic[1].entry = "ni845xFindDevice"
        /\ \A k \in CallsOf("ni845xOpen") : k > 1 /\ traffic[k].vals = <<Discovered>>
        /\ Discovered = "" => CallsOf("ni845xOpen") = {}

LockOps == {"ni845xDeviceLock", "ni845xDeviceUnlock"}

\* C27: ni845xDeviceLock and ni845xDeviceUnlock call the driver's lock and
\* unlock entries once, with the device handle ni845xOpen obtained.
C27_LockActsOnOpenedDevice ==
    call.op \in LockOps =>
        /\ Len(traffic) >= 1
        /\ traffic[1].entry = call.op
        /\ traffic[1].handles = <<"device_handle">>

(***************************************************************************)
(* The status field of I2C, SPI and SPIScript.                             *)
(***************************************************************************)
\* ni845xI2cWrite returns the write buffer as a list
ni845xI2cWrite(writesize, writedata, rc0) ==
    LET rc == OnSession(rc0)
        k == Checked(DrvCall("ni845xI2cWrite", <<"device_handle", "configuration_handle">>,
                             FALSE, <<writesize>>), rc)
    IN  /\ adapter = "I2C"
        /\ IF Len(writedata) > writesize
           THEN /\ Finished([op |-> "ni845xI2cWrite", rc |-> 0],
                            [tr |-> <<>>, pr |-> <<>>, ret |-> None, exc |-> "IndexError"])
                /\ UNCHANGED <<scpiVars, argVars, spiVars>>
           ELSE /\ Finished([op |-> "ni845xI2cWrite", rc |-> rc],
                            [tr |-> k.tr, pr |-> k.pr,
                             ret |-> Some(CArray(writesize, writedata)), exc |-> "none"])
                /\ StatusKept(rc)

InitStatus ==
    /\ InitObjects
    /\ adapter \in {"I2C", "SPI", "SPIScript"}
    /\ D = <<>>
    /\ input = NoInput

NextStatus ==
    \/ \E o \in {x \in OpenOracles : x.find = "found"} : ni845xOpen(o)
    \/ \E rc \in DriverCodes : ni845xClose(rc)
    \/ \E rc \in DriverCodes : ni845xI2cConfigurationOpen(rc)
    \/ \E ub \in WrongEntryOutcomes : ni845xI2cConfigurationClose(ub)
    \/ \E rc \in DriverCodes : ni845xSpiConfigurationOpen(rc)
    \/ \E rc \in DriverCodes : ni845xSpiConfigurationClose(rc)
    \/ \E ws \in WriteSizes, rc \in DriverCodes : ni845xI2cWrite(ws, <<170, 170>>, rc)
    \/ \E n \in ReadSizes, rc \in DriverCodes : \E data \in ReadData(n) :
          ni845xI2cRead(n, rc, data)
    \/ \E n \in ReadSizes, rc \in DriverCodes : \E data \in ReadData(n) :
          ni845xI2cWriteRead(2, <<170, 170>>, n, rc, data)
    \/ \E n \in ReadSizes, rc \in DriverCodes : \E data \in ReadData(n) :
          ni845xSpiWriteRead(2, <<170, 170>>, n, rc, data)
    \/ \E rc \in DriverCodes : ni845xSpiScriptOpen(rc)
    \/ \E rc \in DriverCodes : ni845xSpiScriptClose(rc)
    \/ \E ws \in WriteSizes, rc \in DriverCodes :
          ni845xSpiScriptWriteRead(ws, <<170, 170>>, rc)
    \/ \E rc \in DriverCodes, data \in ReadDataOf(drvScript) : ni845xSpiScriptRun(rc, data)
    \/ \E rc \in DriverCodes : ni845xSpiScriptExtractReadData(2, rc, "silent")

SpecStatus == InitStatus /\ [][NextStatus]_vars

\* the data-transfer operations of I2C, SPI and SPIScript
TransferOps == {"ni845xI2cWrite", "ni845xI2cRead", "ni845xI2cWriteRead",
                "ni845xSpiWriteRead", "ni845xSpiScriptWriteRead",
                "ni845xSpiScriptExtractReadData"}

\* the status codes the driver returned to the last operation, as looked up
FailedWith == {traffic[k].vals[1] : k \in {j \in 1 .. Len(traffic) :
                                           traffic[j].entry = "ni845xStatusToString"}}

\* C29: in I2C, SPI and SPIScript the status field, 0 at construction, is
\* changed only by a data-transfer operation whose driver call returned
\* non-zero, and then equals that code; a successful operation never resets it,
\* and configuration, open and close operations leave it unchanged.
C29_StatusSetOnlyByFailedTransfer ==
    [][/\ status' # status => (call'.op \in TransferOps /\ status' # 0 /\ FailedWith' = {status'})
       /\ (call'.op \in TransferOps /\ FailedWith' # {}) => FailedWith' = {status'}
       /\ call'.op \notin TransferOps => status' = status]_vars

C29_Witness ==
    /\ adapter = "I2C"
    /\ call.op = "ni845xI2cRead" /\ call.rc = 0
    /\ device_handle = "open" /\ configuration_handle = "open"
    /\ status = DeviceNotFound
    /\ ret = Some(<<0, 0>>)

(***************************************************************************)
(* Construction of the adapters.                                           *)
(***************************************************************************)
\* the line General.import_error prints
dll_error_line == "dll file not loaded, 'NI USB-8452 driver was not present/installed'."

\* __init__ of the SCPI adapters: rmOk says whether visa.ResourceManager()
\* succeeds, listOk whether list_resources() does, found is the list it gives.
\* The except clause calls self.import_error(ex), a method that takes no
\* argument: the call raises TypeError before anything is printed and before
\* the option tables are assigned
adapter_init(rmOk, listOk, found) ==
    IF rmOk /\ listOk
    THEN [rm |-> "open", D |-> found, tables |-> TRUE, pr |-> <<>>, exc |-> "none"]
    ELSE [rm |-> IF rmOk THEN "open" ELSE "unset", D |-> <<>>, tables |-> FALSE,
          pr |-> <<>>, exc |-> "TypeError"]

\* General.__init__: loadOk says whether LoadLibrary succeeds
general_init(loadOk) ==
    [loaded |-> loadOk, pr |-> IF loadOk THEN <<>> ELSE <<dll_error_line>>,
     exc |-> "none"]

\* the caller holds an adapter object
Constructed == call.op # "none" /\ ~(call.op = "__init__" /\ raised # "none")

ConstructAdapter(rmOk, listOk, found) ==
    LET r == adapter_init(rmOk, listOk, found) IN
    /\ call.op = "none"
    /\ adapter \in Adapters
    /\ call' = [op |-> "__init__", tables |-> r.tables]
    /\ rm' = r.rm
    /\ D' = r.D
    /\ printed' = r.pr
    /\ raised' = r.exc
    /\ UNCHANGED <<adapter, inst, orphans, traffic, ret, spiVars, argVars>>

ConstructDriver(loadOk) ==
    LET r == general_init(loadOk) IN
    /\ call.op = "none"
    /\ adapter \in NIAdapters
    /\ call' = [op |-> "__init__", tables |-> TRUE, loaded |-> r.loaded]
    /\ printed' = r.pr
    /\ raised' = r.exc
    /\ UNCHANGED <<scpiVars, traffic, ret, spiVars, argVars>>

\* before construction: no object, nothing assigned
InitNew ==
    /\ adapter \in Adapters \cup NIAdapters
    /\ D = <<>>
    /\ rm = "unset"
    /\ inst = <<>>
    /\ orphans = 0
    /\ call = [op |-> "none"]
    /\ traffic = <<>>
    /\ printed = <<>>
    /\ ret = None
    /\ raised = "none"
    /\ input = NoInput
    /\ first_device = None
    /\ device_handle = "unset"
    /\ script_handle = "unset"
    /\ script_read_index = 0
    /\ status = 0
    /\ drvScript = <<>>
    /\ drvReadData = <<>>
    /\ configuration_handle = "unset"
    /\ find_device_handle = "unset"
    /\ next_device = None
    /\ outstanding = NoHandles

NextNew ==
    \/ \E rmOk, listOk \in BOOLEAN, found \in {<<>>, <<"GPIB0::6::INSTR">>} :
          ConstructAdapter(rmOk, listOk, found)
    \/ \E loadOk \in BOOLEAN : ConstructDriver(loadOk)
    \/ /\ Constructed
       /\ adapter \in Adapters
       /\ \/ \E res \in {"GPIB0::6::INSTR", "TCPIP0::h::INSTR"}, idn \in BOOLEAN :
                \E o \in Oracles(FALSE, idn) : Open(res, FALSE, idn, o)
          \/ \E ok \in BOOLEAN : Close(ok)
          \/ \E cmd \in WriteCmds, ok \in BOOLEAN, reply \in Replies : Write(cmd, ok, reply)

SpecNew == InitNew /\ [][NextNew]_vars

\* C26: construction of a SCPI adapter whose resource manager cannot be
\* created or enumerated, and of an NI-845x adapter whose driver library
\* cannot be loaded, completes without raising and leaves an adapter object
\* with its option tables initialised.
C26_ConstructorCompletes ==
    call.op = "__init__" => (raised = "none" /\ call.tables)
====
